---- MODULE Spec2Model ----
(***************************************************************************)
(* brokenfuse: the inode tree (src/src/ftree.rs, src/src/ftypes.rs), the   *)
(* request handlers that drive it (src/src/main.rs) and the effect engine  *)
(* (src/src/effect/mod.rs, src/src/effect/detail.rs).                      *)
(*                                                                         *)
(* Conventions.                                                            *)
(*  - An Ino is a slab index, 0-based as in the code; slot i of the slab   *)
(*    is nodes[i + 1].  An empty slot (Option::None) is NoNode.            *)
(*  - attr.size is a u64.  It is kept as the signed representative of its  *)
(*    value modulo 2^64 (the value `size as i64`), so 0 - 1 is -1, which   *)
(*    stands for 2^64 - 1.  Sizes are only incremented, decremented and    *)
(*    compared for equality, for which this representation is exact.       *)
(*  - A Rust panic (unwrap on None, index out of range, panic!, arithmetic *)
(*    overflow in a debug build) ends the process: status = "panicked",    *)
(*    no handler runs afterwards, and the tree, which lived in the memory  *)
(*    of the process, is gone (the empty slab).                            *)
(*  - Inos that arrive in requests are kernel node ids: 1 (FUSE_ROOT_ID)   *)
(*    or an ino the file system handed out before; never 0.                *)
(*  - Time is counted in milliseconds by clock.  requests holds,            *)
(*    for every call of effect::reply that is followed in time, the delay  *)
(*    it was given, the time the engine returned, who is to invoke the     *)
(*    reply closure and how often the closure has been invoked.            *)
(***************************************************************************)
EXTENDS Integers, Sequences, FiniteSets, TLC

VARIABLES nodes, freelist, status, last, clock, requests

vars == <<nodes, freelist, status, last, clock, requests>>

replyVars == <<clock, requests>>

(***************************************************************************)
(* Bounds of the model.                                                    *)
(***************************************************************************)
MaxSlab == 4

\* largest nlink a handler may produce
MaxNlink == 2

\* largest number of entries of one directory a handler may produce
MaxEntries == 2

\* largest distance between a directory's size and its number of entries
MaxDrift == 1

Names == {"a", "b"}

InoInputs == 1 .. MaxSlab - 1

(***************************************************************************)
(* errno values used by the code (libc).                                   *)
(***************************************************************************)
ENOENT == 2

EEXIST == 17

NoIno == 0 - 1

(***************************************************************************)
(* ftypes.rs: Node, NodeItem, Dir.                                         *)
(***************************************************************************)
NoNode ==
    [present |-> FALSE, ino |-> 0, parent |-> 0, kind |-> "none", nlink |-> 0,
     size |-> 0, children |-> <<>>, effects |-> <<>>]

FreshNode(ino, parent, kind) ==
    [present |-> TRUE, ino |-> ino, parent |-> parent, kind |-> kind, nlink |-> 1,
     size |-> 0, children |-> <<>>, effects |-> <<>>]

\* Dir::lookup: the ino of the first entry called name, or NoIno
RECURSIVE DirLookup(_, _)
DirLookup(children, name) ==
    IF children = <<>> THEN NoIno
    ELSE IF Head(children).name = name THEN Head(children).ino
    ELSE DirLookup(Tail(children), name)

\* Dir::add: push, no check
DirAdd(children, ino, name) == Append(children, [ino |-> ino, name |-> name])

DirRemoveKeep(e, name) == e.name # name

\* Dir::remove: retain every entry whose name differs
DirRemove(children, name) == SelectSeq(children, LAMBDA e : DirRemoveKeep(e, name))

(***************************************************************************)
(* ftree.rs: Tree.                                                         *)
(***************************************************************************)
InRange(ns, ino) == ino >= 0 /\ ino < Len(ns)

\* Tree::get: Some(node) iff the index is in range and the slot is filled
Present(ns, ino) == InRange(ns, ino) /\ ns[ino + 1].present

IsDir(ns, ino) == Present(ns, ino) /\ ns[ino + 1].kind = "dir"

\* Tree::count
Count(ns) == Cardinality({i \in 1 .. Len(ns) : ns[i].present})

\* Tree::initial with the two nodes main() passes
InitialNodes == <<FreshNode(0, 0, "dir"), FreshNode(1, 1, "dir")>>

\* Tree::create with the slot taken off the free-list before the parent is
\* looked at, and not given back when the parent refuses
TreeCreatePopsFirst(ns, fl, parent, name, kind) ==
    LET ext == fl = <<>>
        fl1 == IF ext THEN <<Len(ns)>> ELSE fl
        ns1 == IF ext THEN Append(ns, NoNode) ELSE ns
        ino == fl1[Len(fl1)]
        fl2 == SubSeq(fl1, 1, Len(fl1) - 1)
    IN  IF ~IsDir(ns1, parent)
        THEN [nodes |-> ns1, freelist |-> fl2, res |-> ENOENT, ino |-> NoIno]
        ELSE IF DirLookup(ns1[parent + 1].children, name) # NoIno
        THEN [nodes |-> ns1, freelist |-> fl2, res |-> EEXIST, ino |-> NoIno]
        ELSE LET p2  == [ns1[parent + 1] EXCEPT !.children = DirAdd(@, ino, name),
                                                !.size = @ + 1]
                 ns2 == [ns1 EXCEPT ![parent + 1] = p2]
             IN  [nodes |-> [ns2 EXCEPT ![ino + 1] = FreshNode(ino, parent, kind)],
                  freelist |-> fl2, res |-> 0, ino |-> ino]

\* Tree::create followed by the caller filling the slot (TestFS::create_node).
\* Result: [nodes, freelist, res, ino]; res = 0 on success, else the errno.
TreeCreate(ns, fl, parent, name, kind) ==
    LET ext == fl = <<>>
        fl1 == IF ext THEN <<Len(ns)>> ELSE fl
        ns1 == IF ext THEN Append(ns, NoNode) ELSE ns
    IN  IF ~Present(ns1, parent)
        THEN [nodes |-> ns1, freelist |-> fl1, res |-> ENOENT, ino |-> NoIno]
        ELSE IF ns1[parent + 1].kind # "dir"
        THEN [nodes |-> ns1, freelist |-> fl1, res |-> ENOENT, ino |-> NoIno]
        ELSE IF DirLookup(ns1[parent + 1].children, name) # NoIno
        THEN [nodes |-> ns1, freelist |-> fl1, res |-> EEXIST, ino |-> NoIno]
        ELSE LET ino == fl1[Len(fl1)]
                 fl2 == SubSeq(fl1, 1, Len(fl1) - 1)
                 p   == ns1[parent + 1]
                 p2  == [p EXCEPT !.children = DirAdd(@, ino, name), !.size = @ + 1]
                 ns2 == [ns1 EXCEPT ![parent + 1] = p2]
                 ns3 == [ns2 EXCEPT ![ino + 1] = FreshNode(ino, parent, kind)]
             IN  [nodes |-> ns3, freelist |-> fl2, res |-> 0, ino |-> ino]

\* Tree::link.  Result: [nodes, res, panic].
TreeLink(ns, ino, parent, name) ==
    IF ~InRange(ns, ino)
    THEN [nodes |-> ns, res |-> 0, panic |-> TRUE]
    ELSE IF ~ns[ino + 1].present
    THEN [nodes |-> ns, res |-> ENOENT, panic |-> FALSE]
    ELSE IF ~Present(ns, parent)
    THEN [nodes |-> ns, res |-> ENOENT, panic |-> FALSE]
    ELSE IF ns[parent + 1].kind # "dir"
    THEN [nodes |-> ns, res |-> ENOENT, panic |-> FALSE]
    ELSE IF DirLookup(ns[parent + 1].children, name) # NoIno
    THEN [nodes |-> ns, res |-> EEXIST, panic |-> FALSE]
    ELSE LET p   == ns[parent + 1]
             p2  == [p EXCEPT !.size = @ + 1, !.children = DirAdd(@, ino, name)]
             ns2 == [ns EXCEPT ![parent + 1] = p2]
             ns3 == [ns2 EXCEPT ![ino + 1].nlink = @ + 1]
         IN  [nodes |-> ns3, res |-> 0, panic |-> FALSE]

\* Tree::unlink.  wraps: whether `size -= 1` at 0 wraps (release build) or
\* panics (debug build).  Result: [nodes, found, panic]; found = FALSE is the
\* None the code returns.
TreeUnlink(ns, parent, name, wraps) ==
    IF ~Present(ns, parent) THEN [nodes |-> ns, found |-> FALSE, panic |-> TRUE]
    ELSE IF ns[parent + 1].kind # "dir"
    THEN [nodes |-> ns, found |-> FALSE, panic |-> TRUE]
    ELSE IF ns[parent + 1].size = 0 /\ ~wraps
    THEN [nodes |-> ns, found |-> FALSE, panic |-> TRUE]
    ELSE LET p   == ns[parent + 1]
             ino == DirLookup(p.children, name)
             ns1 == [ns EXCEPT ![parent + 1].size = @ - 1]
         IN  IF ino = NoIno
             THEN [nodes |-> ns1, found |-> FALSE, panic |-> FALSE]
             ELSE LET ns2 == [ns1 EXCEPT ![parent + 1].children = DirRemove(@, name)]
                  IN  IF ~Present(ns2, ino)
                      THEN [nodes |-> ns2, found |-> FALSE, panic |-> TRUE]
                      ELSE LET n   == ns2[ino + 1]
                               ns3 == IF n.nlink - 1 = 0
                                      THEN [ns2 EXCEPT ![ino + 1] = NoNode]
                                      ELSE [ns2 EXCEPT ![ino + 1].nlink = @ - 1]
                           IN  [nodes |-> ns3, found |-> TRUE, panic |-> FALSE]

\* Tree::rename.  Result: [nodes, ino, panic].
TreeRename(ns, old_parent_ino, old_name, parent_ino, name, wraps) ==
    IF ~Present(ns, old_parent_ino) THEN [nodes |-> ns, ino |-> NoIno, panic |-> TRUE]
    ELSE IF ns[old_parent_ino + 1].kind # "dir"
    THEN [nodes |-> ns, ino |-> NoIno, panic |-> TRUE]
    ELSE IF ns[old_parent_ino + 1].size = 0 /\ ~wraps
    THEN [nodes |-> ns, ino |-> NoIno, panic |-> TRUE]
    ELSE LET op  == ns[old_parent_ino + 1]
             ino == DirLookup(op.children, old_name)
             op2 == [op EXCEPT !.size = @ - 1,
                               !.children = IF ino = NoIno THEN @ ELSE DirRemove(@, old_name)]
             ns1 == [ns EXCEPT ![old_parent_ino + 1] = op2]
         IN  IF ~Present(ns1, parent_ino)
             THEN [nodes |-> ns1, ino |-> NoIno, panic |-> TRUE]
             ELSE IF ns1[parent_ino + 1].kind # "dir"
             THEN [nodes |-> ns1, ino |-> NoIno, panic |-> TRUE]
             ELSE IF ino = NoIno
             THEN [nodes |-> ns1, ino |-> NoIno, panic |-> TRUE]
             ELSE LET p   == ns1[parent_ino + 1]
                      p2  == [p EXCEPT !.size = @ + 1, !.children = DirAdd(@, ino, name)]
                  IN  [nodes |-> [ns1 EXCEPT ![parent_ino + 1] = p2], ino |-> ino,
                       panic |-> FALSE]

\* Tree::climb, as the sequence of inos it yields, cut after fuel items
RECURSIVE ClimbFrom(_, _, _)
ClimbFrom(ns, ino, fuel) ==
    IF fuel = 0 \/ ~InRange(ns, ino) THEN <<>>
    ELSE IF ~ns[ino + 1].present THEN <<>>
    ELSE IF ns[ino + 1].parent # ino
    THEN <<ino>> \o ClimbFrom(ns, ns[ino + 1].parent, fuel - 1)
    ELSE <<ino>>

\* the items climb(ino) yields, observed for one item more than the tree has nodes
Climb(ns, ino) == ClimbFrom(ns, ino, Count(ns) + 1)

(***************************************************************************)
(* effect/mod.rs and effect/detail.rs: effects, groups and the engine.     *)
(*                                                                         *)
(* A DefinedEffect is one record for all kinds; the fields a kind does not *)
(* have are 0.  op is the OpType bit set as the set of its letters.  The   *)
(* interior state of an effect is current (Quota) and values (HeatMap, the *)
(* BTreeMap as the set of its <<offset, len, hits>> triples).              *)
(* A probability is counted in units of 1 / RngUnits: a draw of the RNG is *)
(* d / RngUnits with d in 0 .. RngUnits - 1 (a value of [0, 1)), and prob  *)
(* is p / RngUnits.                                                        *)
(***************************************************************************)
RngUnits == 2

MaxOffset == 1

MaxLen == 2

\* largest Quota counter and HeatMap hit count a request may produce
MaxCurrent == 6

MaxHits == 2

\* largest file a write may produce
MaxFileSize == 3

EIO == 5

ENOSPC == 28

EDQUOT == 122

\* Option<ErrNo>::None of run's result
NoErr == 0 - 1

Effect(name, kind, op) ==
    [name |-> name, kind |-> kind, op |-> op, duration_ms |-> 0, cond |-> "none",
     prob |-> 0, avail_ms |-> 0, unavail_ms |-> 0, errno |-> 0, limit |-> 0,
     align |-> 0, volume |-> 0, current |-> 0, values |-> {}]

Delay(name, op, duration_ms) ==
    [Effect(name, "delay", op) EXCEPT !.duration_ms = duration_ms]

FlakeyProb(name, op, prob, errno) ==
    [Effect(name, "flakey", op) EXCEPT !.cond = "prob", !.prob = prob, !.errno = errno]

FlakeyInterval(name, op, avail_ms, unavail_ms, errno) ==
    [Effect(name, "flakey", op) EXCEPT !.cond = "interval", !.avail_ms = avail_ms,
                                       !.unavail_ms = unavail_ms, !.errno = errno]

MaxSize(name, op, limit) == [Effect(name, "maxsize", op) EXCEPT !.limit = limit]

HeatMap(name, op, align) == [Effect(name, "heatmap", op) EXCEPT !.align = align]

Quota(name, op, volume, align) ==
    [Effect(name, "quota", op) EXCEPT !.volume = volume, !.align = align]

\* OpDesr::optype
OpType(op) == IF op.type = "read" THEN "R" ELSE "W"

OpMatchesAnyMask(op, mask) == TRUE

\* the test of run: !(ctx.op.optype() & *op).is_empty()
OpMatches(op, mask) == OpType(op) \in mask

Min(a, b) == IF a <= b THEN a ELSE b

\* x.min(size as usize) for a u64 size kept as its signed representative
MinWithSize(x, size) == IF size < 0 THEN x ELSE Min(x, size)

\* (len + align - 1) / align * align
AlignUp(len, align) == ((len + align - 1) \div align) * align

GroupRemoveKeep(de, name) == de.name # name

\* Group::remove
GroupRemove(effects, name) == SelectSeq(effects, LAMBDA de : GroupRemoveKeep(de, name))

\* add that pushes and removes nothing
GroupAddPushes(effects, nde) == Append(effects, nde)

\* Group::add
GroupAdd(effects, nde) == Append(GroupRemove(effects, nde.name), nde)

\* Tree::traverse(origin): the present nodes of the subtree rooted at origin,
\* found through directory entries
RECURSIVE TraverseFrom(_, _, _)
TraverseFrom(ns, front, seen) ==
    LET kids == {e.ino : e \in UNION {{ns[d + 1].children[k] : k \in 1 .. Len(ns[d + 1].children)}
                                          : d \in {f \in front : ns[f + 1].kind = "dir"}}}
        new  == {i \in kids : Present(ns, i)} \ (seen \cup front)
    IN  IF front = {} THEN seen ELSE TraverseFrom(ns, new, seen \cup front)

Traverse(ns, origin) == IF Present(ns, origin) THEN TraverseFrom(ns, {origin}, {}) ELSE {}

RECURSIVE SumSizes(_, _)
SumSizes(ns, inos) ==
    IF inos = {} THEN 0
    ELSE LET i == CHOOSE x \in inos : TRUE
         IN  ns[i + 1].size + SumSizes(ns, inos \ {i})

\* Result of an apply: [res, val, effect, panic]; res is "ack", "error" (val
\* the errno) or "delay" (val the milliseconds); effect is the effect with
\* its interior state after the call.
Ack(de) == [res |-> "ack", val |-> 0, effect |-> de, panic |-> FALSE]

ApplyPanic(de) == [res |-> "ack", val |-> 0, effect |-> de, panic |-> TRUE]

\* Delay::apply
DelayApply(de, ctx) == [res |-> "delay", val |-> de.duration_ms, effect |-> de, panic |-> FALSE]

\* Flakey::apply; ctx.draw is the f32 the RNG gives, ctx.now the wall clock
FlakeyApply(de, ctx) ==
    LET ret(b) == IF b THEN [res |-> "error", val |-> de.errno, effect |-> de, panic |-> FALSE]
                  ELSE Ack(de)
    IN  IF de.cond = "prob" THEN ret(ctx.draw <= de.prob)
        ELSE IF de.avail_ms + de.unavail_ms = 0 THEN ApplyPanic(de)
        ELSE ret(ctx.now % (de.avail_ms + de.unavail_ms) <= de.avail_ms)

\* MaxSize::apply with the sum taken over the whole tree, from the root that
\* the climb from ctx.origin ends at, in place of the subtree of ctx.origin
MaxSizeApplyWholeTree(de, ctx) ==
    IF ctx.op.type # "write" THEN Ack(de)
    ELSE LET file_size  == ctx.tree[ctx.target + 1].size
             need_grow  == (ctx.op.offset + ctx.op.len) - file_size
             up         == Climb(ctx.tree, ctx.origin)
             total_size == SumSizes(ctx.tree, {i \in Traverse(ctx.tree, up[Len(up)]) :
                                                  ctx.tree[i + 1].kind = "file"})
         IN  IF need_grow < 0 THEN Ack(de)
             ELSE IF total_size + need_grow > de.limit
             THEN [res |-> "error", val |-> ENOSPC, effect |-> de, panic |-> FALSE]
             ELSE Ack(de)

\* MaxSize::apply
MaxSizeApply(de, ctx) ==
    IF ctx.op.type # "write" THEN Ack(de)
    ELSE LET file_size  == ctx.tree[ctx.target + 1].size
             need_grow  == (ctx.op.offset + ctx.op.len) - file_size
             total_size == SumSizes(ctx.tree, {i \in Traverse(ctx.tree, ctx.origin) :
                                                  ctx.tree[i + 1].kind = "file"})
         IN  IF need_grow < 0 THEN Ack(de)
             ELSE IF total_size + need_grow > de.limit
             THEN [res |-> "error", val |-> ENOSPC, effect |-> de, panic |-> FALSE]
             ELSE Ack(de)

\* the BTreeMap entry((offset, len)).and_modify(+1).or_insert(1)
HeatMapRecord(values, offset, len) ==
    IF \E v \in values : v[1] = offset /\ v[2] = len
    THEN {IF v[1] = offset /\ v[2] = len THEN <<v[1], v[2], v[3] + 1>> ELSE v : v \in values}
    ELSE values \cup {<<offset, len, 1>>}

\* HeatMap::apply
HeatMapApply(de, ctx) ==
    LET file_size == ctx.tree[ctx.target + 1].size
        offset1   == MinWithSize(ctx.op.offset, file_size)
        len1      == MinWithSize(ctx.op.len, file_size - offset1)
    IN  IF de.align = 0 THEN ApplyPanic(de)
        ELSE LET offset2 == (offset1 \div de.align) * de.align
                 len2    == AlignUp(len1, de.align)
             IN  Ack([de EXCEPT !.values = HeatMapRecord(@, offset2, len2)])

\* Quota::apply with the comparison current <= volume in place of
\* current < volume
QuotaApplyAboveVolume(de, ctx) ==
    IF de.align = 0 THEN ApplyPanic(de)
    ELSE LET len     == AlignUp(ctx.op.len, de.align)
             current == de.current + len
             de2     == [de EXCEPT !.current = current]
         IN  IF current <= de.volume THEN Ack(de2)
             ELSE [res |-> "error", val |-> EDQUOT, effect |-> de2, panic |-> FALSE]

\* Quota::apply
QuotaApply(de, ctx) ==
    IF de.align = 0 THEN ApplyPanic(de)
    ELSE LET len     == AlignUp(ctx.op.len, de.align)
             current == de.current + len
             de2     == [de EXCEPT !.current = current]
         IN  IF current < de.volume THEN Ack(de2)
             ELSE [res |-> "error", val |-> EDQUOT, effect |-> de2, panic |-> FALSE]

\* Effect::apply, dispatched on the dynamic type
EffectApply(de, ctx) ==
    CASE de.kind = "delay"   -> DelayApply(de, ctx)
      [] de.kind = "flakey"  -> FlakeyApply(de, ctx)
      [] de.kind = "maxsize" -> MaxSizeApply(de, ctx)
      [] de.kind = "heatmap" -> HeatMapApply(de, ctx)
      [] de.kind = "quota"   -> QuotaApply(de, ctx)

\* The order in which run meets the effects: for each node climb yields, the
\* entries of its group in order; as <<ino, index in the group>>.
RECURSIVE WalkOf(_, _)
WalkOf(ns, path) ==
    IF path = <<>> THEN <<>>
    ELSE [k \in 1 .. Len(ns[Head(path) + 1].effects) |-> <<Head(path), k>>]
             \o WalkOf(ns, Tail(path))

WalkRootFirst(ns, target) ==
    LET path == Climb(ns, target)
    IN  WalkOf(ns, [k \in 1 .. Len(path) |-> path[Len(path) + 1 - k]])

Walk(ns, target) == WalkOf(ns, Climb(ns, target))

EffectAt(ns, pos) == ns[pos[1] + 1].effects[pos[2]]

\* the prob Flakeys among the effects of the walk that the request's op matches
ProbFlakeys(ns, walk, op) ==
    {k \in 1 .. Len(walk) : /\ OpMatches(op, EffectAt(ns, walk[k]).op)
                            /\ EffectAt(ns, walk[k]).kind = "flakey"
                            /\ EffectAt(ns, walk[k]).cond = "prob"}

\* The match on the result of apply in run.  st = [nodes, sleep_ms,
\* first_errno, errAt, stop, panic]: errAt is the position of the walk whose
\* effect gave the error (0: none), stop is the `break 'outer`.
AbsorbResetsDelay(st, k, a) ==
    IF a.res = "error"
    THEN [st EXCEPT !.first_errno = a.val, !.errAt = k, !.stop = TRUE, !.sleep_ms = 0]
    ELSE IF a.res = "delay" THEN [st EXCEPT !.sleep_ms = @ + a.val]
    ELSE st

AbsorbKeepsWalking(st, k, a) ==
    IF a.res = "error"
    THEN [st EXCEPT !.first_errno = IF @ = NoErr THEN a.val ELSE @,
                    !.errAt = IF @ = 0 THEN k ELSE @]
    ELSE IF a.res = "delay" THEN [st EXCEPT !.sleep_ms = @ + a.val]
    ELSE st

Absorb(st, k, a) ==
    IF a.res = "error" THEN [st EXCEPT !.first_errno = a.val, !.errAt = k, !.stop = TRUE]
    ELSE IF a.res = "delay" THEN [st EXCEPT !.sleep_ms = @ + a.val]
    ELSE st

\* ctx as position k of the walk sees it, with ctx.origin left at the value
\* run was called with
OriginCtxKeepsFirst(ctx, walk, k, rnd) == [ctx EXCEPT !.draw = rnd[k]]

\* ctx as position k of the walk sees it: ctx.origin = node.attr.ino, and
\* the f32 that the RNG gives there
OriginCtx(ctx, walk, k, rnd) == [ctx EXCEPT !.origin = walk[k][1], !.draw = rnd[k]]

\* The loops of run from position k of the walk on.  st.nodes carries the
\* effects' interior state; rnd[k] is the f32 the RNG would give the effect
\* at position k.
RECURSIVE RunFrom(_, _, _, _, _)
RunFrom(walk, k, ctx, rnd, st) ==
    IF k > Len(walk) \/ st.stop \/ st.panic THEN st
    ELSE LET de == EffectAt(st.nodes, walk[k])
         IN  IF ~OpMatches(ctx.op, de.op) THEN RunFrom(walk, k + 1, ctx, rnd, st)
             ELSE LET c == OriginCtx(ctx, walk, k, rnd)
                      a == EffectApply(de, c)
                      ns2 == [st.nodes EXCEPT ![walk[k][1] + 1].effects[walk[k][2]] = a.effect]
                  IN  IF a.panic THEN [st EXCEPT !.panic = TRUE]
                      ELSE RunFrom(walk, k + 1, ctx, rnd,
                                   Absorb([st EXCEPT !.nodes = ns2], k, a))

\* run(tree.climb(target), ctx)
Run(ns, target, op, rnd, now) ==
    RunFrom(Walk(ns, target), 1,
            [op |-> op, origin |-> target, target |-> target, tree |-> ns,
             draw |-> 0, now |-> now],
            rnd,
            [nodes |-> ns, sleep_ms |-> 0, first_errno |-> NoErr, errAt |-> 0,
             stop |-> FALSE, panic |-> FALSE])

(***************************************************************************)
(* main.rs: the request handlers on the tree.                              *)
(***************************************************************************)
\* the slab a handler leaves is within the bounds of the model
WithinBounds(ns) ==
    \A i \in 1 .. Len(ns) :
        /\ ns[i].nlink <= MaxNlink
        /\ Len(ns[i].children) <= MaxEntries
        /\ ns[i].size - Len(ns[i].children) <= MaxDrift
        /\ Len(ns[i].children) - ns[i].size <= MaxDrift

\* last: the handler that ran last and what it answered (res = 0: success,
\* else the errno); for read and write also the inode, the engine's result
\* (sleep, err), the position of the walk that gave the error, and whether
\* the handler wrote to the file's storage, and the offset and the length of
\* the request; for create and unlink the parent (target) and the name; for
\* rename the old parent (target), the old name, the new parent and the new
\* name; for the xattr handlers the inode (target), the name and the value
\* of the request and the data answered (out)
NoLast ==
    [op |-> "none", target |-> NoIno, name |-> "", res |-> 0, sleep |-> 0, err |-> NoErr,
     errAt |-> 0, wrote |-> FALSE, value |-> <<>>, out |-> <<>>,
     newparent |-> NoIno, newname |-> "", offset |-> 0, len |-> 0]

TreeLast(op, res) == [NoLast EXCEPT !.op = op, !.res = res]

\* the process has panicked
Panicked(op) ==
    /\ nodes' = <<>>
    /\ freelist' = <<>>
    /\ status' = "panicked"
    /\ last' = TreeLast(op, 0)
    /\ UNCHANGED replyVars

Init ==
    /\ nodes = InitialNodes
    /\ freelist = <<>>
    /\ status = "ok"
    /\ last = NoLast
    /\ clock = 0
    /\ requests = <<>>

\* TestFS::create_node
CreateNode(op, parent, name, kind) ==
    /\ status = "ok"
    /\ (freelist = <<>> => Len(nodes) < MaxSlab)
    /\ LET r == TreeCreate(nodes, freelist, parent, name, kind)
       IN  /\ WithinBounds(r.nodes)
           /\ nodes' = r.nodes
           /\ freelist' = r.freelist
           /\ last' = [TreeLast(op, r.res) EXCEPT !.target = parent, !.name = name]
    /\ UNCHANGED <<status, replyVars>>

\* TestFS::mkdir
Mkdir == \E parent \in InoInputs, name \in Names : CreateNode("create", parent, name, "dir")

\* TestFS::create
Create == \E parent \in InoInputs, name \in Names : CreateNode("create", parent, name, "file")

\* TestFS::symlink
Symlink == \E parent \in InoInputs, name \in Names : CreateNode("create", parent, name, "symlink")

\* TestFS::link; link(2) of a directory is refused with EPERM before it
\* reaches the file system, so ino is no directory
DoLink(inos, parents) ==
    /\ status = "ok"
    /\ \E ino \in inos, parent \in parents, name \in Names :
          LET r == TreeLink(nodes, ino, parent, name)
          IN  IF IsDir(nodes, ino) THEN FALSE
              ELSE IF r.panic
              THEN Panicked("link")
              ELSE /\ WithinBounds(r.nodes)
                   /\ nodes' = r.nodes
                   /\ last' = TreeLast("link", r.res)
                   /\ UNCHANGED <<freelist, status, replyVars>>

Link == DoLink(InoInputs, InoInputs)

\* TestFS::unlink (the helper both unlink and rmdir call)
DoUnlink(op, parent, name, wraps) ==
    /\ status = "ok"
    /\ LET r == TreeUnlink(nodes, parent, name, wraps)
           l == [TreeLast(op, IF r.found THEN 0 ELSE ENOENT)
                    EXCEPT !.target = parent, !.name = name]
       IN  IF r.panic
           THEN /\ nodes' = <<>>
                /\ freelist' = <<>>
                /\ status' = "panicked"
                /\ last' = [l EXCEPT !.res = 0]
                /\ UNCHANGED replyVars
           ELSE /\ WithinBounds(r.nodes)
                /\ nodes' = r.nodes
                /\ last' = l
                /\ UNCHANGED <<freelist, status, replyVars>>

Unlink ==
    \E parent \in InoInputs, name \in Names, wraps \in BOOLEAN :
        DoUnlink("unlink", parent, name, wraps)

Rmdir ==
    \E parent \in InoInputs, name \in Names, wraps \in BOOLEAN :
        DoUnlink("unlink", parent, name, wraps)

\* TestFS::rename
Rename ==
    /\ status = "ok"
    /\ \E parent \in InoInputs, name \in Names, newparent \in InoInputs,
          newname \in Names, wraps \in BOOLEAN :
          LET r == TreeRename(nodes, parent, name, newparent, newname, wraps)
              l == [TreeLast("rename", 0)
                       EXCEPT !.target = parent, !.name = name,
                              !.newparent = newparent, !.newname = newname]
          IN  IF r.panic \/ ~Present(r.nodes, r.ino)
              THEN /\ nodes' = <<>>
                   /\ freelist' = <<>>
                   /\ status' = "panicked"
                   /\ last' = l
                   /\ UNCHANGED replyVars
              ELSE /\ WithinBounds(r.nodes)
                   /\ nodes' = [r.nodes EXCEPT ![r.ino + 1].parent = newparent]
                   /\ last' = l
                   /\ UNCHANGED <<freelist, status, replyVars>>

Next ==
    \/ Mkdir
    \/ Create
    \/ Link
    \/ Unlink
    \/ Rmdir
    \/ Rename

Spec == Init /\ [][Next]_vars

(***************************************************************************)
(* main.rs: read and write, which pass through the engine.                 *)
(***************************************************************************)
Offsets == 0 .. MaxOffset

Lens == 1 .. MaxLen

\* climb(ino) ends: the walk of run is finite
ClimbEnds(ns, ino) == Len(Climb(ns, ino)) <= Count(ns)

\* the effects' interior state a request leaves is within the bounds
EffectsWithinBounds(ns) ==
    \A i \in 1 .. Len(ns) : \A k \in 1 .. Len(ns[i].effects) :
        /\ ns[i].effects[k].current <= MaxCurrent
        /\ \A v \in ns[i].effects[k].values : v[3] <= MaxHits

\* the values the RNG can give the effects of the walk: one draw for each
\* prob Flakey the op matches
RndInputs(ns, target, op) ==
    LET walk == Walk(ns, target)
        pf   == ProbFlakeys(ns, walk, op)
    IN  {[k \in 1 .. Len(walk) |-> IF k \in pf THEN f[k] ELSE 0] :
            f \in [pf -> 0 .. RngUnits - 1]}

EngineLast(opname, ino, res, r) ==
    [NoLast EXCEPT !.op = opname, !.target = ino, !.res = res, !.sleep = r.sleep_ms,
                   !.err = r.first_errno, !.errAt = r.errAt]

\* RamStorage::write followed by storage().len()
StorageLenAfterWrite(buflen, offset, len) ==
    IF offset + len >= buflen THEN offset + len ELSE buflen

\* TestFS::write with the storage side-effect placed before the engine's
\* verdict is looked at
WriteOutcomeStoresFirst(ino, offset, len, r) ==
    IF Present(r.nodes, ino) /\ r.nodes[ino + 1].kind = "file"
    THEN [nodes |-> [r.nodes EXCEPT ![ino + 1].size = StorageLenAfterWrite(@, offset, len)],
          res |-> IF r.first_errno # NoErr THEN r.first_errno ELSE 0, wrote |-> TRUE]
    ELSE [nodes |-> r.nodes, res |-> IF r.first_errno # NoErr THEN r.first_errno ELSE ENOENT,
          wrote |-> FALSE]

\* what TestFS::write does to the tree once the engine has returned r;
\* wrote tells whether storage_mut().write was called
WriteOutcome(ino, offset, len, r) ==
    IF r.first_errno # NoErr THEN [nodes |-> r.nodes, res |-> r.first_errno, wrote |-> FALSE]
    ELSE IF ~Present(r.nodes, ino) THEN [nodes |-> r.nodes, res |-> ENOENT, wrote |-> FALSE]
    ELSE IF r.nodes[ino + 1].kind = "file"
    THEN [nodes |-> [r.nodes EXCEPT ![ino + 1].size = StorageLenAfterWrite(@, offset, len)],
          res |-> 0, wrote |-> TRUE]
    ELSE [nodes |-> r.nodes, res |-> ENOENT, wrote |-> FALSE]

\* what TestFS::read does to the tree once the engine has returned r
ReadOutcome(ino, r) ==
    IF r.first_errno # NoErr THEN [nodes |-> r.nodes, res |-> r.first_errno]
    ELSE IF ~Present(r.nodes, ino) THEN [nodes |-> r.nodes, res |-> ENOENT]
    ELSE IF r.nodes[ino + 1].kind = "file" THEN [nodes |-> r.nodes, res |-> 0]
    ELSE [nodes |-> r.nodes, res |-> ENOENT]

(***************************************************************************)
(* effect/mod.rs: reply, the deferred reply.                               *)
(***************************************************************************)
\* the clock stops at MaxTime; a delay is taken only if it can end by then
MaxTime == 6

\* the number of replies that are followed in time
MaxRequests == 2

\* sleep_ms >= 5
SpawnThreshold == 5

\* reply with the threshold test one off: a delay of 5 ms is slept inline
ReplyBranchAbove(sleep_ms) ==
    IF sleep_ms > SpawnThreshold THEN "worker"
    ELSE IF sleep_ms > 0 THEN "inline"
    ELSE "done"

\* the branch reply takes: a spawned thread sleeps and invokes the closure
\* ("worker"), the caller sleeps and invokes it ("inline"), or the caller
\* invokes it at once ("done")
ReplyBranch(sleep_ms) ==
    IF sleep_ms >= SpawnThreshold THEN "worker"
    ELSE IF sleep_ms > 0 THEN "inline"
    ELSE "done"

\* a sleep that returns at once
SleptNothing(req) == TRUE

\* std::thread::sleep(Duration::from_millis(sleep_ms)) has returned: at
\* least sleep_ms have passed since the sleep began
Slept(req) == clock >= req.returned + req.sleep_ms

\* replier()
Invoke(req) == [req EXCEPT !.phase = "done", !.count = @ + 1, !.at = clock]

\* the dispatcher thread is not inside a sleep of reply
DispatcherFree == \A k \in 1 .. Len(requests) : requests[k].phase # "inline"

\* A handler answers a request for which the engine returned sleep_ms:
\* through reply(sleep_ms, closure) if deferred, else by invoking the
\* closure itself.
Answer(sleep_ms, deferred) ==
    LET branch == IF deferred THEN ReplyBranch(sleep_ms) ELSE "done"
        req    == [sleep_ms |-> sleep_ms, returned |-> clock, phase |-> branch,
                   count |-> 0, at |-> clock]
    IN  /\ Len(requests) < MaxRequests
        /\ clock + sleep_ms <= MaxTime
        /\ requests' = Append(requests, IF branch = "done" THEN Invoke(req) ELSE req)
        /\ UNCHANGED clock

\* the thread reply spawned returns from its sleep and invokes the closure
WorkerWake ==
    /\ status = "ok"
    /\ \E k \in 1 .. Len(requests) :
          /\ requests[k].phase = "worker"
          /\ Slept(requests[k])
          /\ requests' = [requests EXCEPT ![k] = Invoke(@)]
    /\ UNCHANGED <<nodes, freelist, status, last, clock>>

\* the dispatcher returns from the inline sleep and invokes the closure
InlineWake ==
    /\ status = "ok"
    /\ \E k \in 1 .. Len(requests) :
          /\ requests[k].phase = "inline"
          /\ Slept(requests[k])
          /\ requests' = [requests EXCEPT ![k] = Invoke(@)]
    /\ UNCHANGED <<nodes, freelist, status, last, clock>>

\* a millisecond passes
Tick ==
    /\ clock < MaxTime
    /\ clock' = clock + 1
    /\ UNCHANGED <<nodes, freelist, status, last, requests>>

\* TestFS::write of an inode of inos; timed: the reply is followed in time,
\* else the model keeps only what was answered
DoWrite(inos, timed) ==
    /\ status = "ok"
    /\ DispatcherFree
    /\ \E ino \in inos, offset \in Offsets, len \in Lens :
          /\ ClimbEnds(nodes, ino)
          /\ LET op == [type |-> "write", offset |-> offset, len |-> len]
             IN  \E rnd \in RndInputs(nodes, ino, op) :
                    LET r == Run(nodes, ino, op, rnd, 0)
                        w == WriteOutcome(ino, offset, len, r)
                    IN  IF r.panic
                        THEN Panicked("write")
                        ELSE /\ EffectsWithinBounds(w.nodes)
                             /\ \A i \in 1 .. Len(w.nodes) : w.nodes[i].size <= MaxFileSize
                             /\ nodes' = w.nodes
                             /\ last' = [EngineLast("write", ino, w.res, r)
                                            EXCEPT !.wrote = w.wrote,
                                                   !.offset = offset, !.len = len]
                             /\ IF timed
                                THEN Answer(r.sleep_ms,
                                            r.first_errno # NoErr \/ Present(r.nodes, ino))
                                ELSE UNCHANGED replyVars
                             /\ UNCHANGED <<freelist, status>>

Write == DoWrite(InoInputs, FALSE)

\* TestFS::read
DoRead(inos, timed) ==
    /\ status = "ok"
    /\ DispatcherFree
    /\ \E ino \in inos, offset \in Offsets, len \in Lens :
          /\ ClimbEnds(nodes, ino)
          /\ LET op == [type |-> "read", offset |-> offset, len |-> len]
             IN  \E rnd \in RndInputs(nodes, ino, op) :
                    LET r == Run(nodes, ino, op, rnd, 0)
                        w == ReadOutcome(ino, r)
                    IN  IF r.panic
                        THEN Panicked("read")
                        ELSE /\ EffectsWithinBounds(w.nodes)
                             /\ nodes' = w.nodes
                             /\ last' = [EngineLast("read", ino, w.res, r)
                                            EXCEPT !.offset = offset, !.len = len]
                             /\ IF timed
                                THEN Answer(r.sleep_ms,
                                            r.first_errno # NoErr \/ Present(r.nodes, ino))
                                ELSE UNCHANGED replyVars
                             /\ UNCHANGED <<freelist, status>>

Read == DoRead(InoInputs, FALSE)

\* The groups the model builds.  run reads of a DefinedEffect its op and its
\* effect only, so a group may hold two Delays under two names.
DelayW == Delay("delay", {"W"}, 100)

DelayRW == Delay("delay2", {"R", "W"}, 50)

FlakeyW == FlakeyProb("flakey", {"W"}, RngUnits, 13)

HeatMapW == HeatMap("heatmap", {"W"}, 8)

QuotaW == Quota("quota", {"W"}, 4, 2)

QuotaRW == Quota("quota", {"R", "W"}, 4, 2)

\* prob 0.0 and prob 1.0, errno left to its default
FlakeyNever == FlakeyProb("flakey", {"R"}, 0, EIO)

FlakeyEver == FlakeyProb("flakey", {"R"}, RngUnits, EIO)

EffectMenu == {DelayW, DelayRW, FlakeyW, HeatMapW, QuotaW, QuotaRW, FlakeyNever, FlakeyEver}

\* The layouts the model builds: the groups of inos 1 (the root), 2 and 3.
\* Effects are attached one at a time, so every layout on the way to one of
\* these is built as well.
EngineLayouts ==
    { << <<>>, <<DelayW>>, <<FlakeyW>> >>,
      << <<HeatMapW>>, <<QuotaW>>, <<FlakeyW>> >>,
      << <<DelayRW>>, <<DelayW>>, <<FlakeyW, QuotaW>> >>,
      << <<QuotaRW>>, <<FlakeyW>>, <<DelayW, DelayRW>> >>,
      << <<FlakeyEver>>, <<FlakeyNever>>, <<>> >> }

\* a group without the interior state of its effects
Configured(effects) ==
    [k \in 1 .. Len(effects) |-> [effects[k] EXCEPT !.current = 0, !.values = {}]]

IsPrefix(s, t) == Len(s) <= Len(t) /\ s = SubSeq(t, 1, Len(s))

\* the groups of ns are on the way to a layout of layouts
InLayoutsOf(ns, layouts) ==
    \E c \in layouts :
        \A ino \in 0 .. Len(ns) - 1 :
            IsPrefix(Configured(ns[ino + 1].effects),
                     IF ino \in 1 .. Len(c) THEN c[ino] ELSE <<>>)

\* the groups of ns are on the way to a layout of EngineLayouts
InLayouts(ns) == InLayoutsOf(ns, EngineLayouts)

\* Group::add on the group of a present node
AttachEffect ==
    /\ status = "ok"
    /\ \E ino \in InoInputs, de \in EffectMenu :
          /\ Present(nodes, ino)
          /\ LET ns2 == [nodes EXCEPT ![ino + 1].effects = GroupAdd(@, de)]
             IN  /\ InLayouts(ns2)
                 /\ nodes' = ns2
          /\ last' = TreeLast("attach", 0)
    /\ UNCHANGED <<freelist, status, replyVars>>

\* The tree / -> a (directory 2) -> a/a (file 3), as mkdir(1, "a") and
\* create(2, "a") leave it
EngineTree ==
    LET t1 == TreeCreate(InitialNodes, <<>>, 1, "a", "dir")
        t2 == TreeCreate(t1.nodes, t1.freelist, t1.ino, "a", "file")
    IN  t2

InitEngine ==
    /\ nodes = EngineTree.nodes
    /\ freelist = EngineTree.freelist
    /\ status = "ok"
    /\ last = NoLast
    /\ clock = 0
    /\ requests = <<>>

NextEngine ==
    \/ AttachEffect
    \/ Write
    \/ Read

SpecEngine == InitEngine /\ [][NextEngine]_vars

(***************************************************************************)
(* Requests whose replies are followed in time.                            *)
(***************************************************************************)
\* The tree of EngineTree with a Delay of 5 ms on reads on the directory,
\* and on the file a Delay of 2 ms on writes and a Flakey on writes that
\* fires on the lowest draw.
ReplyTree ==
    [EngineTree.nodes EXCEPT
        ![3].effects = <<Delay("delay", {"R"}, 5)>>,
        ![4].effects = <<Delay("delay", {"W"}, 2), FlakeyProb("flakey", {"W"}, 0, 13)>>]

InitReply ==
    /\ nodes = ReplyTree
    /\ freelist = EngineTree.freelist
    /\ status = "ok"
    /\ last = NoLast
    /\ clock = 0
    /\ requests = <<>>

WriteTimed == DoWrite(InoInputs, TRUE)

ReadTimed == DoRead(InoInputs, TRUE)

NextReply ==
    \/ WriteTimed
    \/ ReadTimed
    \/ WorkerWake
    \/ InlineWake
    \/ Tick

SpecReply == InitReply /\ [][NextReply]_vars

\* The clock advances, and a thread whose sleep has ended is scheduled.
SpecReplyFair ==
    /\ SpecReply
    /\ WF_vars(Tick)
    /\ WF_vars(WorkerWake)
    /\ WF_vars(InlineWake)

(***************************************************************************)
(* effect/mod.rs: DefinedEffect::create and the JSON form of a group.      *)
(* A JSON document is [json, fields]: json tells what the text parses to   *)
(* ("invalid": it does not parse, "object"), fields maps the keys of an    *)
(* object to tagged values [t, v] with t in {"num", "str"}.                *)
(***************************************************************************)
EINVAL == 22

JNum(n) == [t |-> "num", v |-> n]

JStr(s) == [t |-> "str", v |-> s]

JBool(b) == [t |-> "bool", v |-> b]

JObject(fields) == [json |-> "object", fields |-> fields]

JInvalid == [json |-> "invalid", fields |-> <<>>]

\* str::starts_with
StartsWith(s, p) == Len(s) >= Len(p) /\ SubSeq(s, 1, Len(p)) = p

\* str::strip_prefix, for a string that starts with p
StripPrefix(s, p) == SubSeq(s, Len(p) + 1, Len(s))

\* name.split_once("-").unwrap_or((name, name)).0
BeforeDash(name) ==
    LET at == {i \in 1 .. Len(name) : SubSeq(name, i, i) = "-"}
    IN  IF at = {} THEN name
        ELSE SubSeq(name, 1, (CHOOSE i \in at : \A j \in at : i <= j) - 1)

\* char::to_ascii_uppercase on the letters of the op names
ToAsciiUppercase(c) ==
    CASE c = "r" -> "R" [] c = "w" -> "W" [] c = "l" -> "L" [] c = "m" -> "M" [] OTHER -> c

\* the flags OpType names
OpNames == <<"R", "W", "L", "M">>

\* OpType::from_str: [ok, op]
OpFromStr(s) ==
    LET chars == {ToAsciiUppercase(SubSeq(s, i, i)) : i \in 1 .. Len(s)}
    IN  IF chars \subseteq {OpNames[k] : k \in 1 .. Len(OpNames)}
        THEN [ok |-> TRUE, op |-> chars]
        ELSE [ok |-> FALSE, op |-> {}]

\* Display for OpType: the names of the set flags, joined
OpDisplay(op) ==
    (IF "R" \in op THEN "R" ELSE "") \o (IF "W" \in op THEN "W" ELSE "") \o
    (IF "L" \in op THEN "L" ELSE "") \o (IF "M" \in op THEN "M" ELSE "")

\* fields holds key with a non-negative number (u64, usize, c_int, f32)
HasNum(fields, key) ==
    key \in DOMAIN fields /\ fields[key].t = "num" /\ fields[key].v >= 0

CreateOk(de) == [res |-> "ok", errno |-> 0, effect |-> de]

CreateErr(errno) == [res |-> "err", errno |-> errno, effect |-> Effect("", "none", {})]

CreatePanic == [res |-> "panic", errno |-> 0, effect |-> Effect("", "none", {})]

\* serde_json::from_value::<Delay>
DelayFromValue(sname, op, fields) ==
    IF HasNum(fields, "duration_ms")
    THEN CreateOk(Delay(sname, op, fields["duration_ms"].v))
    ELSE CreateErr(EINVAL)

\* serde_json::from_value::<Flakey>: the untagged condition takes the first
\* variant that fits; errno defaults to EIO
FlakeyFromValue(sname, op, fields) ==
    LET errno == IF "errno" \in DOMAIN fields THEN fields["errno"].v ELSE EIO
    IN  IF "errno" \in DOMAIN fields /\ ~HasNum(fields, "errno") THEN CreateErr(EINVAL)
        ELSE IF HasNum(fields, "prob")
        THEN CreateOk(FlakeyProb(sname, op, fields["prob"].v, errno))
        ELSE IF HasNum(fields, "avail_ms") /\ HasNum(fields, "unavail_ms")
        THEN CreateOk(FlakeyInterval(sname, op, fields["avail_ms"].v,
                                     fields["unavail_ms"].v, errno))
        ELSE CreateErr(EINVAL)

\* serde_json::from_value::<MaxSize>
MaxSizeFromValue(sname, op, fields) ==
    IF HasNum(fields, "limit")
    THEN CreateOk(MaxSize(sname, op, fields["limit"].v))
    ELSE CreateErr(EINVAL)

\* DefinedEffect::create: [res, errno, effect]; res is "panic" where
\* serde_json::from_str(data).unwrap() meets text that is not JSON
DefinedEffectCreate(name, data) ==
    IF data.json = "invalid" THEN CreatePanic
    ELSE IF data.json # "object" \/ ~("op" \in DOMAIN data.fields) THEN CreateErr(EINVAL)
    ELSE IF data.fields["op"].t # "str" \/ ~OpFromStr(data.fields["op"].v).ok
    THEN CreateErr(EINVAL)
    ELSE LET op     == OpFromStr(data.fields["op"].v).op
             eftype == BeforeDash(name)
         IN  CASE eftype = "delay" -> DelayFromValue("delay", op, data.fields)
               [] eftype = "flakey" -> FlakeyFromValue("flakey", op, data.fields)
               [] eftype = "maxsize" -> MaxSizeFromValue("maxsize", op, data.fields)
               [] OTHER -> CreateErr(EINVAL)

(***************************************************************************)
(* effect/mod.rs, xaops.rs: the JSON form of a group and getxattr.         *)
(***************************************************************************)
\* Serialize for DefinedEffect: name, the fields of the effect
\* (serialize_box), op; [res, obj] with res "panic" for an effect that
\* serialize_box does not know
DefinedEffectSerialize(de) ==
    CASE de.kind = "delay" ->
           [res |-> "ok",
            obj |-> [name |-> JStr(de.name), duration_ms |-> JNum(de.duration_ms),
                     op |-> JStr(OpDisplay(de.op))]]
      [] de.kind = "flakey" /\ de.cond = "prob" ->
           [res |-> "ok",
            obj |-> [name |-> JStr(de.name), prob |-> JNum(de.prob),
                     errno |-> JNum(de.errno), op |-> JStr(OpDisplay(de.op))]]
      [] de.kind = "flakey" /\ de.cond = "interval" ->
           [res |-> "ok",
            obj |-> [name |-> JStr(de.name), avail_ms |-> JNum(de.avail_ms),
                     unavail_ms |-> JNum(de.unavail_ms), errno |-> JNum(de.errno),
                     op |-> JStr(OpDisplay(de.op))]]
      [] de.kind = "maxsize" ->
           [res |-> "ok",
            obj |-> [name |-> JStr(de.name), limit |-> JNum(de.limit),
                     op |-> JStr(OpDisplay(de.op))]]
      [] OTHER -> [res |-> "panic", obj |-> <<>>]

\* Group::serialize: the array of the serialized effects, in order;
\* [res, array]
GroupSerialize(effects) ==
    IF \E k \in 1 .. Len(effects) : DefinedEffectSerialize(effects[k]).res = "panic"
    THEN [res |-> "panic", array |-> <<>>]
    ELSE [res |-> "ok",
          array |-> [k \in 1 .. Len(effects) |-> DefinedEffectSerialize(effects[k]).obj]]

\* bf.effect/all: the arrays of the nodes of climb(ino), concatenated
RECURSIVE SerializeAll(_, _)
SerializeAll(ns, path) ==
    IF path = <<>> THEN [res |-> "ok", array |-> <<>>]
    ELSE LET h == GroupSerialize(ns[Head(path) + 1].effects)
             t == SerializeAll(ns, Tail(path))
         IN  IF h.res = "panic" \/ t.res = "panic" THEN [res |-> "panic", array |-> <<>>]
             ELSE [res |-> "ok", array |-> h.array \o t.array]

GetNone == [res |-> "none", out |-> <<>>]

GetSome(out) == [res |-> "some", out |-> out]

\* xaops::get: [res, out] with res "some", "none" or "panic"
XaopsGet(ns, ino, name) ==
    CASE name = "bf.ino" -> GetSome(JNum(ino))
      [] name = "bf.stats" ->
           IF Present(ns, ino) /\ ns[ino + 1].kind = "file"
           THEN GetSome([t |-> "stats", v |-> ino]) ELSE GetNone
      [] name \in {"bf.effect", "bf.effect/self"} ->
           IF ~Present(ns, ino) THEN GetNone
           ELSE LET g == GroupSerialize(ns[ino + 1].effects)
                IN  IF g.res = "panic" THEN [res |-> "panic", out |-> <<>>]
                    ELSE GetSome([t |-> "array", v |-> g.array])
      [] name = "bf.effect/all" ->
           LET g == SerializeAll(ns, Climb(ns, ino))
           IN  IF g.res = "panic" THEN [res |-> "panic", out |-> <<>>]
               ELSE GetSome([t |-> "array", v |-> g.array])
      [] OTHER -> GetNone

XattrLast(op, ino, name, value, res, out) ==
    [NoLast EXCEPT !.op = op, !.target = ino, !.name = name, !.value = value,
                   !.res = res, !.out = out]

\* the process has panicked inside an xattr handler
XattrPanicked(op, ino, name, value) ==
    /\ nodes' = <<>>
    /\ freelist' = <<>>
    /\ status' = "panicked"
    /\ last' = XattrLast(op, ino, name, value, 0, <<>>)
    /\ UNCHANGED replyVars

\* the inodes the xattr requests name: the directory and the file
XattrInos == {2, 3}

GetNames == {"bf.ino", "bf.stats", "bf.effect", "bf.effect/self", "bf.effect/all",
             "bf.effects", "user.x"}

\* TestFS::getxattr
Getxattr ==
    /\ status = "ok"
    /\ \E ino \in XattrInos, name \in GetNames :
          /\ ClimbEnds(nodes, ino)
          /\ LET g == XaopsGet(nodes, ino, name)
             IN  IF g.res = "panic"
                 THEN XattrPanicked("getxattr", ino, name, <<>>)
                 ELSE /\ last' = XattrLast("getxattr", ino, name, <<>>,
                                           IF g.res = "some" THEN 0 ELSE ENOENT, g.out)
                      /\ UNCHANGED <<nodes, freelist, status, replyVars>>

(***************************************************************************)
(* xaops.rs, main.rs: setxattr and removexattr.                            *)
(***************************************************************************)
\* the longest group the model builds
MaxGroup == 2

\* xaops::set: [res, nodes] with res "some", "none" or "panic"
XaopsSet(ns, ino, name, value) ==
    IF name = "bf.effect" THEN [res |-> "some", nodes |-> ns]
    ELSE IF StartsWith(name, "bf.effect.")
    THEN LET c == DefinedEffectCreate(StripPrefix(name, "bf.effect."), value)
         IN  IF c.res # "ok" \/ ~Present(ns, ino)
             THEN [res |-> "panic", nodes |-> ns]
             ELSE [res |-> "some",
                   nodes |-> [ns EXCEPT ![ino + 1].effects = GroupAdd(@, c.effect)]]
    ELSE [res |-> "none", nodes |-> ns]

\* xaops::remove: [res, nodes] with res "some" or "none"
XaopsRemove(ns, ino, name) ==
    IF name = "bf.effect"
    THEN IF ~Present(ns, ino) THEN [res |-> "none", nodes |-> ns]
         ELSE [res |-> "some", nodes |-> [ns EXCEPT ![ino + 1].effects = <<>>]]
    ELSE IF StartsWith(name, "bf.effect")
    THEN IF ~Present(ns, ino) THEN [res |-> "none", nodes |-> ns]
         ELSE [res |-> "some",
               nodes |-> [ns EXCEPT ![ino + 1].effects =
                                        GroupRemove(@, StripPrefix(name, "bf.effect"))]]
    ELSE [res |-> "none", nodes |-> ns]

SetNames == {"bf.effect", "bf.effect.delay", "bf.effect.flakey", "bf.effect.maxsize",
             "bf.effect.heatmap", "bf.effect.quota", "bf.effect.bogus",
             "bf.effectX", "user.x"}

RemoveNames == {"bf.effect", "bf.effect.delay", "bf.effect.flakey", "bf.effect.maxsize",
                "bf.effectX", "bf.effectdelay", "user.x"}

\* the values of setxattr: well-formed configurations of the five kinds,
\* text that is not JSON, objects with op missing, with no op letter in op,
\* and with nothing but op, and the objects {"always": true} and
\* {"always": false} with an op
SetValues ==
    {JObject([op |-> JStr("W"), duration_ms |-> JNum(100)]),
     JObject([op |-> JStr("rw"), duration_ms |-> JNum(50)]),
     JObject([op |-> JStr("W"), prob |-> JNum(RngUnits), errno |-> JNum(13)]),
     JObject([op |-> JStr("W"), limit |-> JNum(2)]),
     JObject([op |-> JStr("W"), align |-> JNum(8)]),
     JObject([op |-> JStr("W"), volume |-> JNum(3), align |-> JNum(2)]),
     JInvalid,
     JObject([duration_ms |-> JNum(100)]),
     JObject([op |-> JStr("X"), duration_ms |-> JNum(100)]),
     JObject([op |-> JStr("W")]),
     JObject([op |-> JStr("W"), always |-> JBool(TRUE)]),
     JObject([op |-> JStr("W"), always |-> JBool(FALSE)])}

\* TestFS::setxattr
Setxattr ==
    /\ status = "ok"
    /\ \E ino \in XattrInos, name \in SetNames, value \in SetValues :
          LET r == XaopsSet(nodes, ino, name, value)
          IN  IF r.res = "panic"
              THEN XattrPanicked("setxattr", ino, name, value)
              ELSE /\ Len(r.nodes[ino + 1].effects) <= MaxGroup
                   /\ nodes' = r.nodes
                   /\ last' = XattrLast("setxattr", ino, name, value,
                                        IF r.res = "some" THEN 0 ELSE ENOENT, <<>>)
                   /\ UNCHANGED <<freelist, status, replyVars>>

\* TestFS::removexattr
Removexattr ==
    /\ status = "ok"
    /\ \E ino \in XattrInos, name \in RemoveNames :
          LET r == XaopsRemove(nodes, ino, name)
          IN  /\ nodes' = r.nodes
              /\ last' = XattrLast("removexattr", ino, name, <<>>,
                                   IF r.res = "some" THEN 0 ELSE ENOENT, <<>>)
              /\ UNCHANGED <<freelist, status, replyVars>>

NextXattr ==
    \/ Setxattr
    \/ Removexattr
    \/ Getxattr

SpecXattr == InitEngine /\ [][NextXattr]_vars

(***************************************************************************)
(* effect/mod.rs: the operations of Group, called on the groups of the     *)
(* directory and the file of EngineTree.                                   *)
(***************************************************************************)
DelayR == Delay("delay", {"R"}, 50)

MaxSizeW == MaxSize("maxsize", {"W"}, 2)

QuotaNamed == Quota("quota", {"R", "W"}, 3, 2)

\* the effects given to Group::add: two of them share the name "delay"
GroupMenu == {DelayW, DelayR, FlakeyW, MaxSizeW, QuotaNamed, HeatMapW}

GroupNames == {de.name : de \in GroupMenu} \cup {".delay"}

GroupLast(op, ino, name) == [NoLast EXCEPT !.op = op, !.target = ino, !.name = name]

\* Group::add
GroupAddCall ==
    /\ status = "ok"
    /\ \E ino \in XattrInos, nde \in GroupMenu :
          /\ Len(GroupAdd(nodes[ino + 1].effects, nde)) <= MaxGroup
          /\ nodes' = [nodes EXCEPT ![ino + 1].effects = GroupAdd(@, nde)]
          /\ last' = GroupLast("add", ino, nde.name)
    /\ UNCHANGED <<freelist, status, replyVars>>

\* Group::remove
GroupRemoveCall ==
    /\ status = "ok"
    /\ \E ino \in XattrInos, name \in GroupNames :
          /\ nodes' = [nodes EXCEPT ![ino + 1].effects = GroupRemove(@, name)]
          /\ last' = GroupLast("remove", ino, name)
    /\ UNCHANGED <<freelist, status, replyVars>>

\* Group::clear
GroupClearCall ==
    /\ status = "ok"
    /\ \E ino \in XattrInos :
          /\ nodes' = [nodes EXCEPT ![ino + 1].effects = <<>>]
          /\ last' = GroupLast("clear", ino, "")
    /\ UNCHANGED <<freelist, status, replyVars>>

NextGroup ==
    \/ GroupAddCall
    \/ GroupRemoveCall
    \/ GroupClearCall
    \/ Getxattr

SpecGroup == InitEngine /\ [][NextGroup]_vars

(***************************************************************************)
(* MaxSize on a tree with a file outside the subtree it is attached to.    *)
(***************************************************************************)
MaxSizeRW == MaxSize("maxsize", {"R", "W"}, 2)

MaxSizeMenu == {MaxSizeW, MaxSizeRW, FlakeyW}

\* The layouts built on this tree: the groups of inos 1 (the root), 2 and 3
MaxSizeLayouts ==
    { << <<MaxSizeW>>, <<MaxSizeW>>, <<MaxSizeW>> >>,
      << <<MaxSizeRW>>, <<>>, <<>> >>,
      << <<FlakeyW>>, <<MaxSizeW, FlakeyW>>, <<FlakeyW, MaxSizeW>> >> }

\* The tree / -> a (directory 2) -> a/a (file 3) and / -> b (file 4), as
\* mkdir(1, "a"), create(2, "a") and create(1, "b") leave it
MaxSizeTree ==
    LET t1 == TreeCreate(InitialNodes, <<>>, 1, "a", "dir")
        t2 == TreeCreate(t1.nodes, t1.freelist, t1.ino, "a", "file")
        t3 == TreeCreate(t2.nodes, t2.freelist, 1, "b", "file")
    IN  t3

\* the files written and read
MaxSizeTargets == {3, 4}

InitMaxSize ==
    /\ nodes = MaxSizeTree.nodes
    /\ freelist = MaxSizeTree.freelist
    /\ status = "ok"
    /\ last = NoLast
    /\ clock = 0
    /\ requests = <<>>

\* Group::add on the group of a node
AttachMaxSize ==
    /\ status = "ok"
    /\ \E ino \in InoInputs, de \in MaxSizeMenu :
          /\ Present(nodes, ino)
          /\ LET ns2 == [nodes EXCEPT ![ino + 1].effects = GroupAdd(@, de)]
             IN  /\ InLayoutsOf(ns2, MaxSizeLayouts)
                 /\ nodes' = ns2
          /\ last' = TreeLast("attach", 0)
    /\ UNCHANGED <<freelist, status, replyVars>>

WriteMaxSize == DoWrite(MaxSizeTargets, FALSE)

ReadMaxSize == DoRead(MaxSizeTargets, FALSE)

NextMaxSize ==
    \/ AttachMaxSize
    \/ WriteMaxSize
    \/ ReadMaxSize

SpecMaxSize == InitMaxSize /\ [][NextMaxSize]_vars

(***************************************************************************)
(* MaxSize on a directory whose subtree changes by create, link and        *)
(* unlink between the writes.                                              *)
(***************************************************************************)
\* The tree / -> a (directory 2), as mkdir(1, "a") leaves it, with
\* MaxSize {limit: 2, op: W} attached to directory a; the files come from
\* create
InitSubtree ==
    /\ LET t1 == TreeCreate(InitialNodes, <<>>, 1, "a", "dir")
       IN  /\ nodes = [t1.nodes EXCEPT ![2 + 1].effects = GroupAdd(@, MaxSizeW)]
           /\ freelist = t1.freelist
    /\ status = "ok"
    /\ last = NoLast
    /\ clock = 0
    /\ requests = <<>>

NextSubtree ==
    \/ Write
    \/ Create
    \/ Link
    \/ Unlink

SpecSubtree == InitSubtree /\ [][NextSubtree]_vars

(***************************************************************************)
(* effect/detail.rs: HeatMap::display on the tables apply can build.       *)
(***************************************************************************)
\* values.iter(): the entries <<offset, len, hits>> in the order of the
\* BTreeMap keys (offset, len), by offset and then by len
RECURSIVE ValuesIter(_)
ValuesIter(values) ==
    IF values = {} THEN <<>>
    ELSE LET m == CHOOSE v \in values : \A w \in values :
                      w = v \/ v[1] < w[1] \/ (v[1] = w[1] /\ v[2] < w[2])
         IN  <<m>> \o ValuesIter(values \ {m})

\* the closure record: overwrite the last pair when its offset repeats,
\* else push
DisplayRecord(out, offset, balance) ==
    IF Len(out) > 0 /\ out[Len(out)][1] = offset
    THEN [out EXCEPT ![Len(out)] = <<offset, balance>>]
    ELSE Append(out, <<offset, balance>>)

\* the two while loops over removals: with bounded, the pairs whose offset
\* is at most upto; without, every pair.  balance never drops below 0, every
\* pair of removals was added to it before.  r is removals.first(), the
\* least pair (offset, delta) of the BTreeSet.
RECURSIVE DisplayDrain(_, _, _)
DisplayDrain(st, bounded, upto) ==
    IF st.removals = {} THEN st
    ELSE LET r == CHOOSE x \in st.removals : \A q \in st.removals :
                      q = x \/ x[1] < q[1] \/ (x[1] = q[1] /\ x[2] < q[2])
         IN  IF bounded /\ r[1] > upto THEN st
             ELSE DisplayDrain([balance  |-> st.balance - r[2],
                                out      |-> DisplayRecord(st.out, r[1], st.balance - r[2]),
                                removals |-> st.removals \ {r}],
                               bounded, upto)

\* the body of the for loop, for the entries of iter from k on.  removals
\* is a set: inserting a pair it already holds leaves it as it was.
RECURSIVE DisplayFrom(_, _, _)
DisplayFrom(st, iter, k) ==
    IF k > Len(iter) THEN st
    ELSE LET start   == iter[k]
             st1     == DisplayDrain(st, TRUE, start[1])
             balance == st1.balance + start[3]
         IN  DisplayFrom([balance  |-> balance,
                          removals |-> st1.removals \cup {<<start[1] + start[2], start[3]>>},
                          out      |-> DisplayRecord(st1.out, start[1], balance)],
                         iter, k + 1)

\* HeatMap::display: the pairs (offset, balance) that are written as JSON
HeatMapDisplay(values) ==
    DisplayDrain(DisplayFrom([balance |-> 0, removals |-> {}, out |-> <<>>],
                             ValuesIter(values), 1),
                 FALSE, 0).out

\* the tables with at most MaxHits hits on a key (offset, len); the keys are
\* what HeatMap::apply records with align 8 on a file of 24 bytes
HeatMapTables ==
    LET keys == {<<0, 8>>, <<0, 16>>, <<8, 0>>, <<8, 8>>, <<16, 8>>}
    IN  {{<<k[1], k[2], h[k]>> : k \in {q \in keys : h[q] > 0}} :
            h \in [keys -> 0 .. MaxHits]}

\* EngineTree with a file of 24 bytes and on it a HeatMap holding one of
\* the tables
InitHeatMap ==
    /\ \E values \in HeatMapTables :
          nodes = [EngineTree.nodes EXCEPT
                      ![3 + 1].size = 24,
                      ![3 + 1].effects = <<[HeatMapW EXCEPT !.values = values]>>]
    /\ freelist = EngineTree.freelist
    /\ status = "ok"
    /\ last = NoLast
    /\ clock = 0
    /\ requests = <<>>

\* display of the HeatMap on the file
Display ==
    /\ status = "ok"
    /\ last' = [NoLast EXCEPT !.op = "display", !.target = 3,
                               !.out = HeatMapDisplay(nodes[3 + 1].effects[1].values)]
    /\ UNCHANGED <<nodes, freelist, status, replyVars>>

NextHeatMap == Display

SpecHeatMap == InitHeatMap /\ [][NextHeatMap]_vars

(***************************************************************************)
(* Claims about the tree.                                                  *)
(***************************************************************************)
Inos == 0 .. Len(nodes) - 1

\* the inos of the nodes made by create_node: every node but the two of main()
CreatedInos == {i \in Inos : i >= 2 /\ nodes[i + 1].present}

\* how many times x occurs in the sequence s
Occurrences(s, x) == Cardinality({k \in 1 .. Len(s) : s[k] = x})

\* the number of entries of present directories whose child is ino
EntryCount(ino) ==
    Cardinality({e \in Inos \X (1 .. MaxEntries + 1) :
                    /\ IsDir(nodes, e[1])
                    /\ e[2] <= Len(nodes[e[1] + 1].children)
                    /\ nodes[e[1] + 1].children[e[2]].ino = ino})

\* C1: after completed create, link, unlink and rename calls the free-list
\* holds exactly the indices of the empty slots, each once; so the index of a
\* node whose last link was unlinked is on the free-list.
C1_FreeListIsEmptySlots ==
    status = "ok" =>
        /\ \A i \in Inos : Occurrences(freelist, i) = (IF nodes[i + 1].present THEN 0 ELSE 1)
        /\ \A k \in 1 .. Len(freelist) : freelist[k] \in Inos

\* C2: after any sequence of create/link/unlink/rename calls, failed ones
\* included, the size of every present directory is its number of entries.
C2_DirSizeIsEntryCount ==
    \A i \in Inos : IsDir(nodes, i) => nodes[i + 1].size = Len(nodes[i + 1].children)

\* C3: the nlink of every present node made by create is the number of
\* entries of present directories that point to it.
C3_NlinkIsEntryCount ==
    \A i \in CreatedInos : nodes[i + 1].nlink = EntryCount(i)

\* C4: no present directory holds two entries with the same name.
C4_NamesUnique ==
    \A i \in Inos : IsDir(nodes, i) =>
        \A j, k \in 1 .. Len(nodes[i + 1].children) :
            nodes[i + 1].children[j].name = nodes[i + 1].children[k].name => j = k

\* C5: the parent of every present non-root node is a present directory.
C5_ParentIsPresentDir ==
    \A i \in CreatedInos : IsDir(nodes, nodes[i + 1].parent)

\* C6: from every present ino, climb yields at most count() nodes and ends,
\* and yields no node twice.
C6_ClimbEndsWithinCount ==
    \A i \in Inos : nodes[i + 1].present =>
        LET c == Climb(nodes, i)
        IN  /\ Len(c) <= Count(nodes)
            /\ \A j, k \in 1 .. Len(c) : c[j] = c[k] => j = k

(***************************************************************************)
(* Claims about the engine.                                                *)
(***************************************************************************)
IsRequest(l) == l.op \in {"read", "write"}

\* the op mask of de intersects the op-type of the request called opname
Intersects(de, opname) ==
    \/ opname = "read" /\ "R" \in de.op
    \/ opname = "write" /\ "W" \in de.op

\* de can answer Error(errno)
CanFail(de, errno) ==
    \/ de.kind = "flakey" /\ de.errno = errno
    \/ de.kind = "quota" /\ errno = EDQUOT
    \/ de.kind = "maxsize" /\ errno = ENOSPC

IsStateful(de) == de.kind \in {"quota", "heatmap"}

\* the positions of the walk of request l up to the one that gave the error
EvaluatedPart(l) ==
    LET walk == Walk(nodes, l.target)
    IN  IF l.err = NoErr THEN walk ELSE SubSeq(walk, 1, l.errAt)

RECURSIVE SumOfDelays(_, _)
SumOfDelays(part, opname) ==
    IF part = <<>> THEN 0
    ELSE (IF /\ EffectAt(nodes, Head(part)).kind = "delay"
             /\ Intersects(EffectAt(nodes, Head(part)), opname)
          THEN EffectAt(nodes, Head(part)).duration_ms ELSE 0)
         + SumOfDelays(Tail(part), opname)

\* C7: when the engine returns an error, given by the effect at position
\* errAt of the walk, every effect later in the walk (later in that node's
\* group, or on a strict ancestor) has the interior state it had before the
\* request.
C7_ErrorEndsWalk ==
    [][(IsRequest(last') /\ last'.err # NoErr) =>
          LET walk == Walk(nodes, last'.target)
          IN  /\ last'.errAt \in 1 .. Len(walk)
              /\ CanFail(EffectAt(nodes, walk[last'.errAt]), last'.err)
              /\ Intersects(EffectAt(nodes, walk[last'.errAt]), last'.op)
              /\ \A k \in 1 .. Len(walk) :
                    k > last'.errAt => EffectAt(nodes', walk[k]) = EffectAt(nodes, walk[k])]_vars

\* an errored request with a Quota or HeatMap of the same op later in the walk
C7_Witness ==
    /\ IsRequest(last)
    /\ last.err # NoErr
    /\ \E k \in 1 .. Len(Walk(nodes, last.target)) :
          /\ k > last.errAt
          /\ IsStateful(EffectAt(nodes, Walk(nodes, last.target)[k]))
          /\ Intersects(EffectAt(nodes, Walk(nodes, last.target)[k]), last.op)
          /\ Walk(nodes, last.target)[k][1] # Walk(nodes, last.target)[last.errAt][1]

\* C8: the delay the engine returns is the sum of the durations of the
\* op-matching Delay effects evaluated on the walk: all of them without an
\* error, those before the first error with one; an error does not reset it.
C8_DelayIsSumOfEvaluated ==
    IsRequest(last) => last.sleep = SumOfDelays(EvaluatedPart(last), last.op)

\* an errored request that returns the delay of a Delay met before the error
C8_Witness ==
    /\ IsRequest(last)
    /\ last.err # NoErr
    /\ last.sleep > 0

\* two Delays of one group both count
C8_WitnessSiblings ==
    /\ IsRequest(last)
    /\ last.sleep = 150
    /\ \E i \in Inos : Len(nodes[i + 1].effects) = 2
                       /\ nodes[i + 1].effects[1].kind = "delay"
                       /\ nodes[i + 1].effects[2].kind = "delay"

\* scenario 2: file 3 has a Flakey on W that always fires with errno 13, its
\* parent 2 a Delay on W of 100 ms, and the last request was a write to 3
Scenario2 ==
    /\ Len(nodes) >= 4
    /\ nodes[4].effects = <<FlakeyW>>
    /\ nodes[3].effects = <<DelayW>>
    /\ nodes[4].parent = 2
    /\ last.op = "write"
    /\ last.target = 3

\* C9 as stated: in scenario 2 the engine returns (100, Some(13)).
C9_Scenario2AsStated == Scenario2 => (last.sleep = 100 /\ last.err = 13)

\* C9, amended: in scenario 2 the engine returns (0, Some(13)); the file's
\* Flakey is evaluated first and ends the walk before the parent's Delay.
C9_Scenario2 == Scenario2 => (last.sleep = 0 /\ last.err = 13)

C9_Witness == Scenario2

\* C10: if no effect on the climb path has an op mask that intersects the
\* request's op-type, the engine returns (0, None) and the interior state of
\* every effect on the path is unchanged.
C10_NoMatchNoEffect ==
    [][(IsRequest(last') /\
        \A k \in 1 .. Len(Walk(nodes, last'.target)) :
            ~Intersects(EffectAt(nodes, Walk(nodes, last'.target)[k]), last'.op)) =>
          /\ last'.sleep = 0
          /\ last'.err = NoErr
          /\ \A k \in 1 .. Len(Walk(nodes, last'.target)) :
                EffectAt(nodes', Walk(nodes, last'.target)[k])
                    = EffectAt(nodes, Walk(nodes, last'.target)[k])]_vars

\* a request whose path holds a Quota or HeatMap, and no effect of its op
C10_Witness ==
    /\ IsRequest(last)
    /\ \A k \in 1 .. Len(Walk(nodes, last.target)) :
          ~Intersects(EffectAt(nodes, Walk(nodes, last.target)[k]), last.op)
    /\ \E k \in 1 .. Len(Walk(nodes, last.target)) :
          IsStateful(EffectAt(nodes, Walk(nodes, last.target)[k]))

\* C11: when the engine returns an error for a write, the write is answered
\* with that errno, storage is not written and no attr.size changes: the
\* engine runs, on the W op-type, before the storage side-effect.
C11_ErrorLeavesStorage ==
    [][(status' = "ok" /\ last'.op = "write" /\ last'.err # NoErr) =>
          /\ last'.res = last'.err
          /\ ~last'.wrote
          /\ Len(nodes') = Len(nodes)
          /\ \A i \in 1 .. Len(nodes) : nodes'[i].size = nodes[i].size]_vars

\* an errored write that would have grown a file that already holds bytes
C11_Witness ==
    /\ last.op = "write" /\ last.err # NoErr /\ last.res = last.err
    /\ Present(nodes, last.target)
    /\ nodes[last.target + 1].kind = "file"
    /\ nodes[last.target + 1].size = 1

(***************************************************************************)
(* Claims about the deferred reply.                                        *)
(***************************************************************************)
Requests == 1 .. Len(requests)

\* the closure of request k was invoked, once, and not before the delay
RepliedInTime(k) ==
    /\ requests[k].count = 1
    /\ requests[k].at >= requests[k].returned + requests[k].sleep_ms

\* C12: the reply closure of every request is invoked exactly once (at most
\* once at any time, and once in the end) and not earlier than sleep_ms
\* milliseconds after the engine returned, whichever branch reply takes.
C12_RepliedOnceAfterDelay ==
    /\ [](\A k \in Requests :
            /\ requests[k].count <= 1
            /\ requests[k].count = 1 => RepliedInTime(k))
    /\ \A k \in 1 .. MaxRequests :
          (Len(requests) >= k) ~> (Len(requests) >= k /\ RepliedInTime(k))

\* replies have been delivered by a worker and after an inline sleep
C12_Witness ==
    /\ Len(requests) = 2
    /\ \A k \in Requests : RepliedInTime(k)
    /\ \E k \in Requests : requests[k].sleep_ms >= 5
    /\ \E k \in Requests : requests[k].sleep_ms > 0 /\ requests[k].sleep_ms < 5

\* replies have been delivered by a worker and at once
C12_WitnessImmediate ==
    /\ Len(requests) = 2
    /\ \A k \in Requests : RepliedInTime(k)
    /\ \E k \in Requests : requests[k].sleep_ms >= 5
    /\ \E k \in Requests : requests[k].sleep_ms = 0 /\ requests[k].at = requests[k].returned

\* C13: the dispatcher never sleeps for a request whose delay is 5 ms or
\* more; such a request leaves the dispatcher free for the requests that
\* follow, and only the spawned worker waits.
C13_DispatcherNeverSleepsLong ==
    \A k \in Requests :
        requests[k].sleep_ms >= 5 =>
            /\ requests[k].phase # "inline"
            /\ (requests[k].phase = "worker" /\ Len(requests) = k) => DispatcherFree

\* a later request was taken and answered while the worker of an earlier
\* request was still sleeping
C13_Witness ==
    /\ Len(requests) >= 2
    /\ requests[1].phase = "worker" /\ requests[1].count = 0
    /\ requests[1].sleep_ms >= 5
    /\ requests[2].count = 1
    /\ requests[2].returned > requests[1].returned
    /\ requests[2].at < requests[1].returned + requests[1].sleep_ms

(***************************************************************************)
(* Claims about the failures of create.                                    *)
(***************************************************************************)
\* the empty slots that the free-list fl does not hold
LostSlots(ns, fl) ==
    {i \in 0 .. Len(ns) - 1 : ~ns[i + 1].present /\ Occurrences(fl, i) = 0}

\* the present nodes, each with its entries and its size
PresentEntries(ns) ==
    {<<i, ns[i + 1].children, ns[i + 1].size>> :
        i \in {j \in 0 .. Len(ns) - 1 : ns[j + 1].present}}

\* C20: create fails with ENOENT when the parent is no present directory
\* and with EEXIST when the parent has an entry of that name; a failed
\* create changes no present node, no entries and no size, and loses no
\* slab index: no empty slot leaves the free-list.
C20_CreateFailure ==
    [][(status' = "ok" /\ last'.op = "create") =>
          LET parent == last'.target
              name   == last'.name
          IN  /\ ~IsDir(nodes, parent) => last'.res = ENOENT
              /\ (IsDir(nodes, parent) /\ \E k \in 1 .. Len(nodes[parent + 1].children) :
                                             nodes[parent + 1].children[k].name = name)
                    => last'.res = EEXIST
              /\ last'.res # 0 =>
                    /\ PresentEntries(nodes') = PresentEntries(nodes)
                    /\ LostSlots(nodes', freelist') = LostSlots(nodes, freelist)]_vars

\* create has failed on a name that exists, in a slab that had no free slot
\* before the call
C20_Witness ==
    /\ last.op = "create" /\ last.res = EEXIST
    /\ freelist = <<Len(nodes) - 1>>
    /\ ~nodes[Len(nodes)].present

\* create has failed on a parent that is not a directory
C20_WitnessNoDir ==
    /\ last.op = "create" /\ last.res = ENOENT
    /\ Present(nodes, last.target)

(***************************************************************************)
(* Claims about Group.                                                     *)
(***************************************************************************)
\* the entries of group g whose name is not name, in order
Others(g, name) == SelectSeq(g, LAMBDA de : de.name # name)

NamesUniqueIn(g) ==
    \A j, k \in 1 .. Len(g) : g[j].name = g[k].name => j = k

Kinds == {"delay", "flakey", "maxsize", "heatmap", "quota"}

\* the fields the configuration of each kind must hold
Schema(kind) ==
    CASE kind = "delay" -> {"duration_ms"}
      [] kind = "flakey" -> {"prob"}
      [] kind = "maxsize" -> {"limit"}
      [] kind = "heatmap" -> {"align"}
      [] kind = "quota" -> {"volume", "align"}

\* the letters of the op names, in either case
OpLetters == {"R", "W", "L", "M", "r", "w", "l", "m"}

\* value has an "op" string made of op letters
HasOp(value) ==
    /\ value.json = "object" /\ "op" \in DOMAIN value.fields
    /\ value.fields["op"].t = "str"
    /\ \A i \in 1 .. Len(value.fields["op"].v) :
          SubSeq(value.fields["op"].v, i, i) \in OpLetters

\* value is a well-formed configuration of kind
WellFormed(kind, value) ==
    /\ HasOp(value)
    /\ \A key \in Schema(kind) :
          key \in DOMAIN value.fields /\ value.fields[key].t = "num"

\* the op set value asks for
OpOf(value) ==
    {c \in {"R", "W", "L", "M"} :
        \E i \in 1 .. Len(value.fields["op"].v) :
            SubSeq(value.fields["op"].v, i, i) \in {c, IF c = "R" THEN "r" ELSE
                IF c = "W" THEN "w" ELSE IF c = "L" THEN "l" ELSE "m"}}

\* de is an effect of kind, named kind, with the op set and the
\* configuration of value
Carries(de, kind, value) ==
    /\ de.name = kind /\ de.kind = kind /\ de.op = OpOf(value)
    /\ \A key \in Schema(kind) :
          CASE key = "duration_ms" -> de.duration_ms = value.fields[key].v
            [] key = "prob" -> de.cond = "prob" /\ de.prob = value.fields[key].v
            [] key = "limit" -> de.limit = value.fields[key].v
            [] key = "align" -> de.align = value.fields[key].v
            [] key = "volume" -> de.volume = value.fields[key].v

IsSetOf(l, kind) == l.op = "setxattr" /\ l.name = "bf.effect." \o kind

\* C15: setting bf.effect.<kind>, for each of the five kinds, with a
\* well-formed configuration on a present inode succeeds and leaves in the
\* node's group exactly one effect named <kind>, with the op set and the
\* configuration given.
C15_SetCreatesEffect ==
    [][\A kind \in Kinds :
          (IsSetOf(last', kind) /\ WellFormed(kind, last'.value)
                /\ Present(nodes, last'.target)) =>
             /\ status' = "ok" /\ last'.res = 0
             /\ LET g2 == nodes'[last'.target + 1].effects
                IN  /\ Cardinality({k \in 1 .. Len(g2) : g2[k].name = kind}) = 1
                    /\ \E k \in 1 .. Len(g2) : Carries(g2[k], kind, last'.value)]_vars

\* C15 for the kinds delay, flakey and maxsize only
C15_SetCreatesKnownEffect ==
    [][\A kind \in {"delay", "flakey", "maxsize"} :
          (IsSetOf(last', kind) /\ WellFormed(kind, last'.value)
                /\ Present(nodes, last'.target)) =>
             /\ status' = "ok" /\ last'.res = 0
             /\ LET g2 == nodes'[last'.target + 1].effects
                IN  /\ Cardinality({k \in 1 .. Len(g2) : g2[k].name = kind}) = 1
                    /\ \E k \in 1 .. Len(g2) : Carries(g2[k], kind, last'.value)]_vars

IsRemoveOf(l, kind) == l.op = "removexattr" /\ l.name = "bf.effect." \o kind

\* C16: removing bf.effect.<kind> from a node whose group holds an effect
\* named <kind> leaves the group without that effect and with the others
\* unchanged and in order; removing bf.effect empties the group.
C16_RemoveRemovesEffect ==
    [][(status' = "ok" /\ last'.op = "removexattr") =>
          LET g  == nodes[last'.target + 1].effects
              g2 == nodes'[last'.target + 1].effects
          IN  /\ \A kind \in Kinds :
                    (IsRemoveOf(last', kind) /\ \E k \in 1 .. Len(g) : g[k].name = kind)
                       => g2 = Others(g, kind)
              /\ last'.name = "bf.effect" => g2 = <<>>]_vars

\* a set of bf.effect.<x> that must be refused: unknown kind, text that is
\* not JSON, no or malformed op, or fields that do not fit the kind
IsBadSet(l) ==
    /\ l.op = "setxattr" /\ StartsWith(l.name, "bf.effect.")
    /\ \/ \A kind \in Kinds : l.name # "bf.effect." \o kind
       \/ l.value.json = "invalid"
       \/ ~HasOp(l.value)
       \/ \E kind \in Kinds : l.name = "bf.effect." \o kind /\ ~WellFormed(kind, l.value)

\* C17: a set of bf.effect.<kind> with an unknown kind, a value that is not
\* JSON, a missing or malformed op, or fields that do not fit the kind is
\* answered with EINVAL; the process keeps running and the tree and the
\* groups are unchanged.
C17_BadSetIsRefused ==
    [][IsBadSet(last') =>
          /\ status' = "ok" /\ last'.res = EINVAL
          /\ nodes' = nodes /\ freelist' = freelist]_vars

\* the name is no row of the control-plane table for the operation
NotInTable(l) ==
    \/ l.op = "getxattr"
         /\ l.name \notin {"bf.ino", "bf.stats", "bf.effect", "bf.effect/self", "bf.effect/all"}
    \/ l.op = "setxattr" /\ ~StartsWith(l.name, "bf.effect.")
    \/ l.op = "removexattr" /\ l.name # "bf.effect" /\ ~StartsWith(l.name, "bf.effect.")

\* C18: a get, set or remove whose name is no row of the control-plane
\* table for that operation is answered with ENOENT and changes no group.
C18_UnknownNameIsENOENT ==
    [][NotInTable(last') =>
          /\ status' = "ok" /\ last'.res = ENOENT
          /\ nodes' = nodes]_vars

(***************************************************************************)
(* Claim about the round trip of a group through its JSON form.            *)
(***************************************************************************)
\* DefinedEffect::create on every object of a serialized group, each under
\* the name the object holds, added to a group in order: [ok, effects]
RECURSIVE ParseBack(_, _)
ParseBack(array, acc) ==
    IF array = <<>> THEN [ok |-> TRUE, effects |-> acc]
    ELSE LET c == DefinedEffectCreate(Head(array)["name"].v, JObject(Head(array)))
         IN  IF c.res # "ok" THEN [ok |-> FALSE, effects |-> acc]
             ELSE ParseBack(Tail(array), GroupAdd(acc, c.effect))

\* the get of bf.effect of a group all of whose kinds are in kinds answers
\* an array that parses back to the group and serializes to itself
RoundTrips(kinds) ==
    (/\ last'.op = "getxattr" /\ last'.name \in {"bf.effect", "bf.effect/self"}
     /\ nodes[last'.target + 1].effects # <<>>
     /\ \A k \in 1 .. Len(nodes[last'.target + 1].effects) :
           nodes[last'.target + 1].effects[k].kind \in kinds) =>
        /\ status' = "ok" /\ last'.res = 0
        /\ LET p == ParseBack(last'.out.v, <<>>)
           IN  /\ p.ok
               /\ p.effects = nodes[last'.target + 1].effects
               /\ GroupSerialize(p.effects) = [res |-> "ok", array |-> last'.out.v]

\* C19: a group made only of delay, flakey, maxsize and quota effects,
\* serialized and parsed back object by object with DefinedEffect::create,
\* gives the same group field by field, and serializing that gives the same
\* text again.
C19_RoundTrip == [][RoundTrips({"delay", "flakey", "maxsize", "quota"})]_vars

\* C19 for groups made only of delay, flakey and maxsize effects
C19_RoundTripKnownKinds == [][RoundTrips({"delay", "flakey", "maxsize"})]_vars


(***************************************************************************)
(* Claims about unlink, rename and the slab.                               *)
(***************************************************************************)
\* the request of the step names no entry: its parent is no present
\* directory, or the directory has no entry of that name
NamesNoEntry(ns, parent, name) ==
    ~IsDir(ns, parent) \/ DirLookup(ns[parent + 1].children, name) = NoIno

\* C21: unlink(parent, name) where parent has no entry called name, or is
\* no present directory, answers ENOENT without a panic and leaves the tree
\* as it was: entries, sizes and nlinks of every node.
C21_UnlinkOfNothingIsENOENT ==
    [][(last'.op = "unlink" /\ NamesNoEntry(nodes, last'.target, last'.name)) =>
          /\ status' = "ok"
          /\ last'.res = ENOENT
          /\ nodes' = nodes]_vars


\* the directory parent of ns has an entry called name
HasEntry(ns, parent, name) ==
    IsDir(ns, parent) /\ DirLookup(ns[parent + 1].children, name) # NoIno

\* C22: rename onto a name that new_parent already holds (another entry than
\* the one renamed) fails: it answers an error without a panic, and entries,
\* sizes and nlinks of the whole tree are as before the call.
C22_RenameOntoExistingFails ==
    [][(/\ last'.op = "rename"
        /\ HasEntry(nodes, last'.target, last'.name)
        /\ HasEntry(nodes, last'.newparent, last'.newname)
        /\ <<last'.target, last'.name>> # <<last'.newparent, last'.newname>>) =>
          /\ status' = "ok"
          /\ last'.res # 0
          /\ nodes' = nodes]_vars


\* the entries of directory d of ns, as a set
EntrySet(ns, d) == {ns[d + 1].children[k] : k \in 1 .. Len(ns[d + 1].children)}

\* the inos climb yields from ino
ClimbSet(ns, ino) == {Climb(ns, ino)[k] : k \in 1 .. Len(Climb(ns, ino))}

\* the step is a rename that has answered ok, of an entry that was there,
\* onto a name that was free, and it has not moved a node into itself or
\* below itself: the node is not on the climb from new_parent, nor is it
\* old_parent
IsRenameOk ==
    /\ last'.op = "rename" /\ status' = "ok" /\ last'.res = 0
    /\ HasEntry(nodes, last'.target, last'.name)
    /\ ~HasEntry(nodes, last'.newparent, last'.newname)
    /\ LET ino == DirLookup(nodes[last'.target + 1].children, last'.name)
       IN  ino \notin ClimbSet(nodes, last'.newparent) \cup {last'.target}

\* C23: after a successful rename the old name is not found in old_parent,
\* the new name in new_parent gives the ino the old name gave, the node keeps
\* its children, its parent field is new_parent, climb from the node and from
\* everything below it passes through new_parent, and the reverse rename
\* succeeds and gives every directory the entries it had before.  (The
\* reverse is taken with a wrapping size: a size of 0 after the rename is
\* one that the rename's own size += 1 has wrapped to 0.)
C23_RenameMovesEntry ==
    [][IsRenameOk =>
          LET old_parent == last'.target
              old_name   == last'.name
              new_parent == last'.newparent
              new_name   == last'.newname
              ino        == DirLookup(nodes[old_parent + 1].children, old_name)
              back       == TreeRename(nodes', new_parent, new_name, old_parent, old_name, TRUE)
          IN  /\ DirLookup(nodes'[old_parent + 1].children, old_name) = NoIno
              /\ DirLookup(nodes'[new_parent + 1].children, new_name) = ino
              /\ nodes'[ino + 1].children = nodes[ino + 1].children
              /\ nodes'[ino + 1].parent = new_parent
              /\ \A x \in 0 .. Len(nodes') - 1 :
                    ino \in ClimbSet(nodes', x) => new_parent \in ClimbSet(nodes', x)
              /\ ~back.panic
              /\ back.ino = ino
              /\ \A d \in 0 .. Len(nodes) - 1 :
                    IsDir(nodes, d) =>
                        /\ IsDir(back.nodes, d)
                        /\ EntrySet(back.nodes, d) = EntrySet(nodes, d)
                        /\ back.nodes[d + 1].size = nodes[d + 1].size]_vars


\* the indices of the empty slots of ns
EmptySlots(ns) == {i \in 0 .. Len(ns) - 1 : ~ns[i + 1].present}

\* the ino a successful create has put under its parent: the last entry
CreatedIno(ns, parent) == ns[parent + 1].children[Len(ns[parent + 1].children)].ino

\* C30: a successful create takes the smallest index whose slot is empty and
\* leaves the slab at its length; it extends the slab, by one slot that it
\* fills, only when no slot is empty.  So a create after an unlink that has
\* emptied a slot takes a vacated index.
C30_CreateReusesEmptySlot ==
    [][(last'.op = "create" /\ status' = "ok" /\ last'.res = 0) =>
          LET ino == CreatedIno(nodes', last'.target)
          IN  IF EmptySlots(nodes) # {}
              THEN /\ ino \in EmptySlots(nodes)
                   /\ \A i \in EmptySlots(nodes) : ino <= i
                   /\ Len(nodes') = Len(nodes)
              ELSE /\ ino = Len(nodes)
                   /\ Len(nodes') = Len(nodes) + 1]_vars


(***************************************************************************)
(* Claims about the effects.                                               *)
(***************************************************************************)
\* how many positions of the walk the request of l has evaluated
EvaluatedCount(ns, l) == IF l.err = NoErr THEN Len(Walk(ns, l.target)) ELSE l.errAt

\* the request of l has got its error from position k of the walk
ErrorFrom(l, k, errno) == l.err = errno /\ l.errAt = k

\* C24: a Quota that a read or write reaches and whose op matches adds the
\* request's length, rounded up to a multiple of align, to current, and
\* answers Error(EDQUOT) exactly when current >= volume after the addition;
\* a Quota not reached or of another op keeps its current.  So current
\* never decreases, and a Quota that has answered EDQUOT answers EDQUOT to
\* every later request that reaches it.
C24_QuotaCountsLengths ==
    [][(IsRequest(last') /\ status' = "ok") =>
          LET walk == Walk(nodes, last'.target)
          IN  \A k \in 1 .. Len(walk) :
                 LET de  == EffectAt(nodes, walk[k])
                     de2 == EffectAt(nodes', walk[k])
                     add == ((last'.len + de.align - 1) \div de.align) * de.align
                 IN  de.kind = "quota" =>
                        IF k <= EvaluatedCount(nodes, last') /\ Intersects(de, last'.op)
                        THEN /\ de2.current = de.current + add
                             /\ ErrorFrom(last', k, EDQUOT) <=> de2.current >= de.volume
                        ELSE de2.current = de.current]_vars

\* a Quota has answered EDQUOT with current = volume after the addition
C24_Witness ==
    /\ IsRequest(last) /\ last.err = EDQUOT
    /\ LET de == EffectAt(nodes, Walk(nodes, last.target)[last.errAt])
       IN  de.kind = "quota" /\ de.current = de.volume

\* a Quota that was over its volume before the request has answered EDQUOT
\* again, to a read
C24_WitnessAgain ==
    /\ last.op = "read" /\ last.err = EDQUOT
    /\ LET de == EffectAt(nodes, Walk(nodes, last.target)[last.errAt])
       IN  de.kind = "quota" /\ de.current - de.align >= de.volume


\* value is a Flakey configuration {"op": ..., "always": b}
IsAlways(value) ==
    /\ HasOp(value)
    /\ "always" \in DOMAIN value.fields
    /\ value.fields["always"].t = "bool"

\* what de answers to a write of the model, whatever the RNG and the clock give
Answers(de) ==
    {EffectApply(de, [op |-> [type |-> "write", offset |-> 0, len |-> 1], origin |-> 0,
                      target |-> 0, tree |-> nodes, draw |-> draw, now |-> now]).res :
        draw \in 0 .. RngUnits - 1, now \in 0 .. MaxTime}

\* C25: DefinedEffect.create accepts a Flakey configured with {always: b};
\* the effect it makes, set on a node, answers Error(EIO) to every operation
\* if b is true and Ack to every operation if b is false.
C25_AlwaysIsAccepted ==
    [][(IsSetOf(last', "flakey") /\ IsAlways(last'.value) /\ Present(nodes, last'.target)) =>
          /\ DefinedEffectCreate("flakey", last'.value).res = "ok"
          /\ status' = "ok" /\ last'.res = 0
          /\ LET g2 == nodes'[last'.target + 1].effects
             IN  \E k \in 1 .. Len(g2) :
                    /\ g2[k].name = "flakey" /\ g2[k].kind = "flakey"
                    /\ g2[k].errno = EIO
                    /\ Answers(g2[k]) = (IF last'.value.fields["always"].v
                                         THEN {"error"} ELSE {"ack"})]_vars


\* position k of the walk of request l holds a prob Flakey on a directory
\* above the target, which the request's op matches and the walk has reached
FlakeyAbove(ns, l, k) ==
    LET pos == Walk(ns, l.target)[k]
    IN  /\ EffectAt(ns, pos).kind = "flakey" /\ EffectAt(ns, pos).cond = "prob"
        /\ Intersects(EffectAt(ns, pos), l.op)
        /\ IsDir(ns, pos[1]) /\ pos[1] # l.target
        /\ k <= EvaluatedCount(ns, l)

\* C26: a Flakey with prob 0.0 on op R on a directory gives no error to a
\* read of a descendant, whatever the RNG draws in [0, 1); one with prob 1.0
\* fails every read that reaches it with its errno, EIO.
C26_ProbZeroNeverFails ==
    [][(last'.op = "read" /\ status' = "ok") =>
          \A k \in 1 .. Len(Walk(nodes, last'.target)) :
             LET de == EffectAt(nodes, Walk(nodes, last'.target)[k])
             IN  FlakeyAbove(nodes, last', k) =>
                    /\ de.prob = 0 => ~ErrorFrom(last', k, de.errno)
                    /\ de.prob = RngUnits => ErrorFrom(last', k, EIO)]_vars


\* how far the write of l ends beyond the end of its target in ns
NeedGrow(ns, l) == (l.offset + l.len) - ns[l.target + 1].size

\* position k of the walk of request l holds a MaxSize which the request's op
\* matches and the walk has reached
MaxSizeReached(ns, l, k) ==
    /\ EffectAt(ns, Walk(ns, l.target)[k]).kind = "maxsize"
    /\ Intersects(EffectAt(ns, Walk(ns, l.target)[k]), l.op)
    /\ k <= EvaluatedCount(ns, l)

\* C27: a MaxSize answers Ack to every write that does not grow the target
\* file, offset + len <= size, whatever the total size of the subtree and
\* the limit: no such write gets ENOSPC from a MaxSize.
C27_NoGrowthIsAck ==
    [][(/\ last'.op = "write" /\ status' = "ok"
        /\ nodes[last'.target + 1].kind = "file"
        /\ NeedGrow(nodes, last') <= 0) =>
          \A k \in 1 .. Len(Walk(nodes, last'.target)) :
             MaxSizeReached(nodes, last', k) => ~ErrorFrom(last', k, ENOSPC)]_vars


\* the present regular files of ns at or below origin, by their parent fields
FilesBelow(ns, origin) ==
    {i \in 0 .. Len(ns) - 1 :
        /\ ns[i + 1].present /\ ns[i + 1].kind = "file"
        /\ origin \in ClimbSet(ns, i)}

\* the sum of the sizes of the files of ns at or below origin
RECURSIVE SizeOfFiles(_, _)
SizeOfFiles(ns, files) ==
    IF files = {} THEN 0
    ELSE LET i == CHOOSE x \in files : TRUE
         IN  ns[i + 1].size + SizeOfFiles(ns, files \ {i})

\* C28: for a write that grows the target file by need_grow > 0, a MaxSize
\* attached at origin answers Error(ENOSPC) iff the sizes of the present
\* regular files of origin's subtree, plus need_grow, exceed limit, and Ack
\* otherwise: directories and files outside the subtree do not count.  A
\* read gets Ack from every MaxSize.
C28_MaxSizeLimitsSubtree ==
    [][(IsRequest(last') /\ status' = "ok" /\ nodes[last'.target + 1].kind = "file") =>
          \A k \in 1 .. Len(Walk(nodes, last'.target)) :
             LET origin == Walk(nodes, last'.target)[k][1]
                 de     == EffectAt(nodes, Walk(nodes, last'.target)[k])
                 total  == SizeOfFiles(nodes, FilesBelow(nodes, origin))
             IN  MaxSizeReached(nodes, last', k) =>
                    /\ (last'.op = "write" /\ NeedGrow(nodes, last') > 0) =>
                          (ErrorFrom(last', k, ENOSPC)
                              <=> total + NeedGrow(nodes, last') > de.limit)
                    /\ last'.op = "read" => ~ErrorFrom(last', k, ENOSPC)]_vars

\* a growing write to file 3 has got Ack from the MaxSize of directory 2
\* while file 4, outside that subtree, holds enough to exceed the limit
C28_Witness ==
    /\ last.op = "write" /\ last.target = 3 /\ last.err = NoErr /\ last.wrote
    /\ Len(nodes[3].effects) = 1 /\ nodes[3].effects[1].kind = "maxsize"
    /\ nodes[5].size + nodes[4].size > nodes[3].effects[1].limit

\* a growing write has got ENOSPC from the MaxSize of the root, whose
\* subtree holds both files
C28_WitnessError ==
    /\ last.op = "write" /\ last.err = ENOSPC
    /\ Walk(nodes, last.target)[last.errAt][1] = 1
    /\ nodes[4].size > 0 /\ nodes[5].size > 0
    /\ NeedGrow(nodes, last) > 0

\* a read has reached a MaxSize of its op
C28_WitnessRead ==
    /\ last.op = "read" /\ last.err = NoErr
    /\ \E k \in 1 .. Len(Walk(nodes, last.target)) : MaxSizeReached(nodes, last, k)


\* The order the engine is to keep: the effects of ino in the order of
\* their insertion, then those of its parent, and so on up to the root; as
\* <<owner, index in the group>>, for at most fuel nodes
RECURSIVE OrderFrom(_, _, _)
OrderFrom(ns, ino, fuel) ==
    IF fuel = 0 \/ ~Present(ns, ino) THEN <<>>
    ELSE [k \in 1 .. Len(ns[ino + 1].effects) |-> <<ino, k>>]
            \o (IF ns[ino + 1].parent = ino THEN <<>>
                ELSE OrderFrom(ns, ns[ino + 1].parent, fuel - 1))

\* what the effect at pos answers to the request of l when ctx.origin is the
\* node that owns it
AnswerAt(ns, l, pos, draw) ==
    EffectApply(EffectAt(ns, pos),
                [op |-> [type |-> l.op, offset |-> l.offset, len |-> l.len],
                 origin |-> pos[1], target |-> l.target, tree |-> ns,
                 draw |-> draw, now |-> 0])

\* the effect at pos matches the op of l and yields Error, whatever the RNG gives
YieldsError(ns, l, pos) ==
    /\ Intersects(EffectAt(ns, pos), l.op)
    /\ \A draw \in 0 .. RngUnits - 1 : AnswerAt(ns, l, pos, draw).res = "error"

\* C29: the engine meets the op-matching effects in one order, the target's
\* in insertion order, then its parent's, and so on up to the root, each
\* with ctx.origin the node that owns it; the errno it returns is that of
\* the first effect in this order that yields Error, and None if none does.
C29_FirstErrorInOrder ==
    [][(IsRequest(last') /\ status' = "ok") =>
          LET order   == OrderFrom(nodes, last'.target, Count(nodes) + 1)
              failing == {k \in 1 .. Len(order) : YieldsError(nodes, last', order[k])}
          IN  IF failing = {} THEN last'.err = NoErr
              ELSE LET f == CHOOSE k \in failing : \A j \in failing : k <= j
                   IN  /\ last'.err = AnswerAt(nodes, last', order[f], 0).val
                       /\ Walk(nodes, last'.target)[last'.errAt] = order[f]]_vars

\* a write to file 3 has got its error from the MaxSize of the root, past
\* the MaxSize of the file itself and that of directory 2, which gave Ack
C29_Witness ==
    /\ last.op = "write" /\ last.target = 3 /\ last.err = ENOSPC
    /\ Walk(nodes, 3)[last.errAt] = <<1, 1>>
    /\ last.errAt = 3

\* a write to file 3 has got ENOSPC from the MaxSize that was inserted first
\* into the group of directory 2, in front of a Flakey that fails every write
C29_WitnessGroup ==
    /\ last.op = "write" /\ last.target = 3 /\ last.err = ENOSPC
    /\ Walk(nodes, 3)[last.errAt] = <<2, 1>>
    /\ Len(nodes[3].effects) = 2

\* a write to file 3 has got the errno of the Flakey that stands second in
\* the group of directory 2, whose MaxSize gave Ack
C29_WitnessSecond ==
    /\ last.op = "write" /\ last.target = 3 /\ last.err = 13
    /\ Walk(nodes, 3)[last.errAt] = <<2, 2>>


(***************************************************************************)
(* Claims about parents, hard links and the heat map.                      *)
(***************************************************************************)
\* C32: every present non-root node n has an entry pointing to n among the
\* children of the directory that n.parent names, so n is reached from the
\* root through entries and climb(n) follows a path by which n is linked.
C32_ParentHoldsEntry ==
    status = "ok" =>
        \A n \in CreatedInos :
            /\ IsDir(nodes, nodes[n + 1].parent)
            /\ \E k \in 1 .. Len(nodes[nodes[n + 1].parent + 1].children) :
                  nodes[nodes[n + 1].parent + 1].children[k].ino = n

\* the table of the HeatMap on the file
HeatMapOf(ns) == ns[3 + 1].effects[1].values

RECURSIVE SumOfHits(_)
SumOfHits(values) ==
    IF values = {} THEN 0
    ELSE LET v == CHOOSE x \in values : TRUE
         IN  v[3] + SumOfHits(values \ {v})

\* the sum of the hits of the ranges [start, start + len) of values that
\* contain offset
DepthAt(values, offset) ==
    LET over == {v \in values : v[1] <= offset /\ offset < v[1] + v[2]}
    IN  SumOfHits(over)

\* C33: display gives at every offset it emits the sum of the hits of the
\* recorded ranges that contain the offset, and its last record has depth 0.
C33_DisplayGivesDepth ==
    (status = "ok" /\ last.op = "display") =>
        /\ \A k \in 1 .. Len(last.out) :
              last.out[k][2] = DepthAt(HeatMapOf(nodes), last.out[k][1])
        /\ Len(last.out) > 0 => last.out[Len(last.out)][2] = 0

\* two ranges of the table end at the same offset with the same hits
SharedEnd(values) ==
    \E v \in values, w \in values :
        v # w /\ v[1] + v[2] = w[1] + w[2] /\ v[3] = w[3]

\* display gives the depths for the tables without such a pair
C33_DisplayGivesDepthApart ==
    (status = "ok" /\ last.op = "display" /\ ~SharedEnd(HeatMapOf(nodes))) =>
        /\ \A k \in 1 .. Len(last.out) :
              last.out[k][2] = DepthAt(HeatMapOf(nodes), last.out[k][1])
        /\ Len(last.out) > 0 => last.out[Len(last.out)][2] = 0

\* the directory is present and carries a MaxSize on op W
CarriesMaxSize(ns, dir) ==
    /\ Present(ns, dir)
    /\ \E k \in 1 .. Len(ns[dir + 1].effects) :
          ns[dir + 1].effects[k].kind = "maxsize" /\ "W" \in ns[dir + 1].effects[k].op

\* the present regular files of ns reached from origin through directory
\* entries
LinkedBelow(ns, origin) == {i \in Traverse(ns, origin) : ns[i + 1].kind = "file"}

\* C31: while directory a carries the MaxSize with limit L, the regular
\* files reached from a through directory entries, hard links included,
\* total at most L bytes after every write, create, link and unlink.
C31_SubtreeStaysWithinLimit ==
    (status = "ok" /\ CarriesMaxSize(nodes, 2)) =>
        SizeOfFiles(nodes, LinkedBelow(nodes, 2)) <= MaxSizeW.limit

====
